---- MODULE Spec2Model ----
\* A model of bloomtracker's blocking client (src/bloomtracker/client.py):
\* the transport retry loop, the rebuild pass of update(), the cache snapshot
\* file and the load/save pair that reads and writes it.
EXTENDS Integers, Sequences, FiniteSets, TLC

\* ------------------------------------------------------------------ bounds

\* The oldest age (in clock ticks) the snapshot file is followed to.
MaxAge == 2
\* The largest cache_duration a client is constructed with.
MaxCacheDuration == 1
\* The largest retry_count a direct get_data call is given.
MaxRetry == 3
\* The largest one-digit number a raw value code is written with.
MaxCode == 3
\* The last day number a forecast is built on (day 0 is a Monday).
MaxDay == 6
\* The most items a flat legend handed to build_legend has.
MaxLegend == 4
\* The most awaits of the initialization task that are counted.
MaxAwaits == 3

\* ------------------------------------------------------- program constants

\* get_data's default retry_count, the one update() runs with.
DEFAULT_RETRY_COUNT == 3

\* ------------------------------------------------------------------ values

\* Python's None (and JSON null).
None == [type |-> "None"]

\* A naive datetime.datetime naming instant t.
Datetime(t) == [type |-> "datetime", t |-> t]

\* A str holding a timestamp in format fmt: "uhr" is the publisher's
\* '%Y-%m-%d %H:%M Uhr', "iso" is ISO-8601, anything else parses as neither.
TimeStr(fmt, t) == [type |-> "str", fmt |-> fmt, t |-> t]

\* The outcome of a call: a value, or the exception raised.
Ok(v) == [exc |-> "none", val |-> v]
Raise(e) == [exc |-> e]

\* datetime.datetime.strptime(s, '%Y-%m-%d %H:%M Uhr')
strptime(s) ==
  IF s.type = "str" /\ s.fmt = "uhr" THEN Ok(Datetime(s.t)) ELSE Raise("ValueError")

\* datetime.isoformat()
isoformat(d) == TimeStr("iso", d.t)

\* datetime.datetime.fromisoformat(s)
fromisoformat(s) ==
  IF s.type = "str" /\ s.fmt = "iso" THEN Ok(Datetime(s.t))
  ELSE IF s.type = "str" THEN Raise("ValueError") ELSE Raise("TypeError")

\* DateTimeEncoder: a datetime inside the dumped document becomes its ISO string.
DateTimeEncoder(o) == IF o.type = "datetime" THEN isoformat(o) ELSE o

\* ------------------------------------------------------------ raw codes

\* The numbers raw value codes are written with: the one-digit ones and two
\* of two digits.
CodeNumbers == (0..MaxCode) \cup {10, 12}

\* f"{a}" and f"{a}-{b}": the text of a raw value code
Code1(a) == ToString(a)
Code2(a, b) == ToString(a) \o "-" \o ToString(b)

DigitChar(n) ==
  CASE n = 0 -> "0" [] n = 1 -> "1" [] n = 2 -> "2" [] n = 3 -> "3" [] n = 4 -> "4"
    [] n = 5 -> "5" [] n = 6 -> "6" [] n = 7 -> "7" [] n = 8 -> "8" [] n = 9 -> "9"

\* The characters of the decimal text of n < 100
NumChars(n) ==
  IF n < 10 THEN <<DigitChar(n)>> ELSE <<DigitChar(n \div 10), DigitChar(n % 10)>>

\* Each raw value code with the characters its text is made of: the codes
\* "a" and "a-b", and the sentinel "-1".
CodeTable ==
  { <<Code1(a), NumChars(a)>> : a \in CodeNumbers }
  \cup { <<Code2(n[1], n[2]), NumChars(n[1]) \o <<"-">> \o NumChars(n[2])>> :
           n \in CodeNumbers \X CodeNumbers }
  \cup { <<"-1", <<"-", "1">> >> }

CodeTexts == { c[1] : c \in CodeTable }

CharsOf == [t \in CodeTexts |-> (CHOOSE c \in CodeTable : c[1] = t)[2]]

\* The characters of a raw value code.
Chars(raw) == CharsOf[raw]

Digits == {"0", "1", "2", "3", "4", "5", "6", "7", "8", "9"}

DigitVal(c) ==
  CASE c = "0" -> 0 [] c = "1" -> 1 [] c = "2" -> 2 [] c = "3" -> 3 [] c = "4" -> 4
    [] c = "5" -> 5 [] c = "6" -> 6 [] c = "7" -> 7 [] c = "8" -> 8 [] c = "9" -> 9

\* str.split('-') on a sequence of characters: the items between hyphens,
\* items[i] being the items after the first i characters.
SplitChars(cs) ==
  LET items[i \in 0..Len(cs)] ==
        IF i = 0 THEN << <<>> >>
        ELSE IF cs[i] = "-" THEN Append(items[i - 1], <<>>)
        ELSE [items[i - 1] EXCEPT ![Len(items[i - 1])] = Append(@, cs[i])]
  IN items[Len(cs)]

split(raw) == SplitChars(Chars(raw))

\* The number a sequence of digits writes.
IntOf(item) ==
  LET n[i \in 0..Len(item)] ==
        IF i = 0 THEN 0 ELSE 10 * n[i - 1] + DigitVal(item[i])
  IN n[Len(item)]

\* An int() that would read the empty string as 0.
IntLenient(item) ==
  IF \E i \in 1..Len(item) : item[i] \notin Digits THEN Raise("ValueError")
  ELSE Ok(IntOf(item))

\* int(item): the empty string and a non-digit raise ValueError.
int(item) ==
  IF item = <<>> \/ \E i \in 1..Len(item) : item[i] \notin Digits
  THEN Raise("ValueError")
  ELSE Ok(IntOf(item))

\* The greatest common divisor of n >= 0 and d >= 1.
GCD(n, d) ==
  CHOOSE g \in 1..d :
    /\ n % g = 0 /\ d % g = 0
    /\ \A h \in 1..d : (n % h = 0 /\ d % h = 0) => h <= g

\* A float that is the quotient n / d, in lowest terms.
Float(n, d) == LET g == GCD(n, d) IN [num |-> n \div g, den |-> d \div g]

\* A comparison that would leave the band's upper edge out.
FloatLess(a, n, d) == a.num * d < n * a.den

\* a <= n / d for floats a and the literal n / d
FloatLeq(a, n, d) == a.num * d <= n * a.den

\* result += int(item): the sum so far and the next item's int(), either of
\* which may be an exception already.
AddItem(result, v) ==
  IF result.exc # "none" THEN result
  ELSE IF v.exc # "none" THEN v
  ELSE Ok(result.val + v.val)

\* for item in items: result += int(item), result[i] being the sum after i items
SumItems(items) ==
  LET result[i \in 0..Len(items)] ==
        IF i = 0 THEN Ok(0) ELSE AddItem(result[i - 1], int(items[i]))
  IN result[Len(items)]

\* A mean that would always halve the sum.
MeanOfTwo(result, n) == IF result.exc # "none" THEN result ELSE Ok(Float(result.val, 2))

\* return result / len(items)
MeanOf(result, n) == IF result.exc # "none" THEN result ELSE Ok(Float(result.val, n))

\* build_pollen.calculate_value, from the items of value.split('-')
ValueOfItems(items) == MeanOf(SumItems(items), Len(items))

calculate_value(value) == ValueOfItems(split(value))

\* build_pollen.get_color_for_value
get_color_for_value(value) ==
  IF FloatLeq(value, 0, 1) THEN "#00FF00"
  ELSE IF FloatLeq(value, 1, 1) THEN "#ADFF2F"
  ELSE IF FloatLeq(value, 2, 1) THEN "#FFFF00"
  ELSE IF FloatLeq(value, 5, 2) THEN "#FFA500"
  ELSE "#FF0000"

\* build_values' dict literal, v being calculate_value(value): 'value' is
\* computed first, then 'human' looked up in the legend.
Entry(lg, value, v) ==
  IF v.exc # "none" THEN v
  ELSE IF value \notin DOMAIN lg THEN Raise("KeyError")
  ELSE Ok([value |-> v.val, raw |-> value, human |-> lg[value],
           color |-> get_color_for_value(v.val)])

\* build_pollen.build_values under legend lg (a dict raw code -> text, or None)
build_values(lg, value) ==
  IF lg = None THEN Raise("DwdPollenError")
  ELSE Entry(lg, value, calculate_value(value))

\* ------------------------------------------------------------ dictionaries

\* An ordered dict read from JSON is a sequence of <<key, value>> items; a dict
\* the client builds and looks up by key is a function.
HasKey(items, k) == \E i \in 1..Len(items) : items[i][1] = k

Lookup(items, k) == items[CHOOSE i \in 1..Len(items) : items[i][1] = k][2]

\* d[k] = v on a dict held as a function
Put(d, k, v) == [x \in (DOMAIN d) \cup {k} |-> IF x = k THEN v ELSE d[x]]

EmptyDict == <<>>

\* ------------------------------------------------------------ build_legend

\* '_desc' in key, for a key held as the sequence of its parts
ContainsDesc(key) == \E i \in 1..Len(key) : key[i] = "_desc"

\* f'{key}_desc'
DescKey(key) == key \o <<"_desc">>

\* A pass that would leave out a code whose '_desc' key is missing.
LegendItemLenient(legend, new_legend, key, value) ==
  IF new_legend.exc # "none" THEN new_legend
  ELSE IF ContainsDesc(key) \/ ~HasKey(legend, DescKey(key)) THEN new_legend
  ELSE Ok(Put(new_legend.val, value, Lookup(legend, DescKey(key))))

\* One pass of build_legend's loop over legend.items(): a code key gets the
\* description of its '_desc' key, which raises KeyError if there is none.
LegendItem(legend, new_legend, key, value) ==
  IF new_legend.exc # "none" THEN new_legend
  ELSE IF ContainsDesc(key) THEN new_legend
  ELSE IF ~HasKey(legend, DescKey(key)) THEN Raise("KeyError")
  ELSE Ok(Put(new_legend.val, value, Lookup(legend, DescKey(key))))

\* build_legend: new_legend[i] is new_legend after i items of legend.items(),
\* or the KeyError raised on the way.
build_legend(legend) ==
  LET new_legend[i \in 0..Len(legend)] ==
        IF i = 0 THEN Ok(EmptyDict)
        ELSE LegendItem(legend, new_legend[i - 1], legend[i][1], legend[i][2])
  IN new_legend[Len(legend)]

\* ------------------------------------------------------------ build_pollen

\* datetime.weekday() of day number d; day 0 is a Monday.
weekday(d) == d % 7

\* strftime('%Y-%m-%d') of day number d
strftime(d) == TimeStr("date", d)

\* The dated slots filled before the day-after slot is looked at: the dict
\* literal of each weekday branch, as <<day, bucket key>> in evaluation order.
LiteralSlots(today) ==
  IF weekday(today) < 4 \/ weekday(today) = 4
  THEN << <<today, "today">>, <<today + 1, "tomorrow">> >>
  ELSE IF weekday(today) = 5 THEN << <<today, "tomorrow">> >>
  ELSE <<>>

\* A builder that would look at the day-after slot on every weekday.
UsesDayAfterAlways(today) == TRUE

\* Whether the weekday branch looks at allergen['dayafter_to'] at all.
UsesDayAfter(today) == weekday(today) >= 4

\* The sentinel test allergen['dayafter_to'] != '-1'
IsAvailable(raw) == raw # "-1"

\* d[k] = e for a value e that may have raised instead
SetEntry(d, k, e) == IF e.exc # "none" THEN e ELSE Ok(Put(d, k, e.val))

\* One entry of a dict literal: new_pollen with the slot's date set, or the
\* exception allergen[...] or build_values raised.
FillSlot(lg, allergen, slot, new_pollen) ==
  IF slot[2] \notin DOMAIN allergen THEN Raise("KeyError")
  ELSE SetEntry(new_pollen, strftime(slot[1]), build_values(lg, allergen[slot[2]]))

FillNext(lg, allergen, slot, filled) ==
  IF filled.exc # "none" THEN filled ELSE FillSlot(lg, allergen, slot, filled.val)

\* The dict literal: filled[i] is the dict after i slots, or the exception.
FillSlots(lg, allergen, slots) ==
  LET filled[i \in 0..Len(slots)] ==
        IF i = 0 THEN Ok(EmptyDict)
        ELSE FillNext(lg, allergen, slots[i], filled[i - 1])
  IN filled[Len(slots)]

\* if allergen['dayafter_to'] != '-1': new_pollen[day_after_tomorrow] = ...
DayAfter(lg, allergen, today, new_pollen) ==
  IF new_pollen.exc # "none" \/ ~UsesDayAfter(today) THEN new_pollen
  ELSE IF "dayafter_to" \notin DOMAIN allergen THEN Raise("KeyError")
  ELSE IF ~IsAvailable(allergen.dayafter_to) THEN new_pollen
  ELSE SetEntry(new_pollen.val, strftime(today + 2),
                build_values(lg, allergen.dayafter_to))

build_pollen(lg, allergen, today) ==
  DayAfter(lg, allergen, today, FillSlots(lg, allergen, LiteralSlots(today)))

\* ------------------------------------------------- AsyncDwdPollenApi.build_pollen
\* The asynchronous client has a build_pollen of its own, with nested
\* functions of its own; it is translated branch by branch.

\* build_pollen.calculate_value of the asynchronous client
AsyncCalculateValue(value) ==
  LET items == split(value)
      result[i \in 0..Len(items)] ==
        IF i = 0 THEN Ok(0) ELSE AddItem(result[i - 1], int(items[i]))
  IN IF result[Len(items)].exc # "none" THEN result[Len(items)]
     ELSE Ok(Float(result[Len(items)].val, Len(items)))

\* build_pollen.get_color_for_value of the asynchronous client
AsyncGetColorForValue(value) ==
  IF FloatLeq(value, 0, 1) THEN "#00FF00"
  ELSE IF FloatLeq(value, 1, 1) THEN "#ADFF2F"
  ELSE IF FloatLeq(value, 2, 1) THEN "#FFFF00"
  ELSE IF FloatLeq(value, 5, 2) THEN "#FFA500"
  ELSE "#FF0000"

\* build_pollen.build_values of the asynchronous client: the legend test,
\* then the dict literal, entry by entry.
AsyncBuildValues(lg, value) ==
  IF lg = None THEN Raise("DwdPollenError")
  ELSE LET v == AsyncCalculateValue(value)
       IN IF v.exc # "none" THEN v
          ELSE IF value \notin DOMAIN lg THEN Raise("KeyError")
          ELSE Ok([value |-> v.val, raw |-> value, human |-> lg[value],
                   color |-> AsyncGetColorForValue(v.val)])

\* build_values(allergen[field])
AsyncSlot(lg, allergen, field) ==
  IF field \notin DOMAIN allergen THEN Raise("KeyError")
  ELSE AsyncBuildValues(lg, allergen[field])

\* new_pollen[k] = e after the dict so far, either of which may have raised
AsyncSet(new_pollen, k, e) ==
  IF new_pollen.exc # "none" THEN new_pollen
  ELSE IF e.exc # "none" THEN e
  ELSE Ok(Put(new_pollen.val, k, e.val))

\* A test that would take the sentinel for a code.
AsyncAvailableAlways(raw) == TRUE

\* allergen['dayafter_to'] != '-1'
AsyncAvailable(raw) == raw # "-1"

\* if allergen['dayafter_to'] != '-1': new_pollen[day_after_tomorrow] = ...
AsyncDayAfter(lg, allergen, today, new_pollen) ==
  IF new_pollen.exc # "none" THEN new_pollen
  ELSE IF "dayafter_to" \notin DOMAIN allergen THEN Raise("KeyError")
  ELSE IF AsyncAvailable(allergen.dayafter_to)
  THEN AsyncSet(new_pollen, strftime(today + 2), AsyncSlot(lg, allergen, "dayafter_to"))
  ELSE new_pollen

\* {today: build_values(allergen['today']), tomorrow: build_values(allergen['tomorrow'])}
AsyncTodayTomorrow(lg, allergen, today) ==
  AsyncSet(AsyncSet(Ok(EmptyDict), strftime(today), AsyncSlot(lg, allergen, "today")),
           strftime(today + 1), AsyncSlot(lg, allergen, "tomorrow"))

\* AsyncDwdPollenApi.build_pollen: the if / elif chain over today.weekday()
async_build_pollen(lg, allergen, today) ==
  IF weekday(today) < 4 THEN AsyncTodayTomorrow(lg, allergen, today)
  ELSE IF weekday(today) = 4
  THEN AsyncDayAfter(lg, allergen, today, AsyncTodayTomorrow(lg, allergen, today))
  ELSE IF weekday(today) = 5
  THEN AsyncDayAfter(lg, allergen, today,
                     AsyncSet(Ok(EmptyDict), strftime(today),
                              AsyncSlot(lg, allergen, "tomorrow")))
  ELSE IF weekday(today) = 6 THEN AsyncDayAfter(lg, allergen, today, Ok(EmptyDict))
  ELSE Ok(EmptyDict)

\* ------------------------------------------------------------ the rebuild pass

\* The client's fields update() and load_from_cache() assign.
ClientState(d, lg, lu, nu) ==
  [data |-> d, legend |-> lg, last_update |-> lu, next_update |-> nu]

\* A step's outcome: the client's fields after it and the exception it raised.
Done(st) == [st |-> st, exc |-> "none"]
Failed(st, e) == [st |-> st, exc |-> e]

\* f"{region['region_id']}-{region['partregion_id']}": one key per id pair
RegionKey(region_id, partregion_id) == <<region_id, partregion_id>>

\* new_region['pollen'][allergen] = self.build_pollen(pollen)
BuildNext(lg, item, today, built) ==
  IF built.exc # "none" THEN built
  ELSE SetEntry(built.val, item[1], build_pollen(lg, item[2], today))

\* for allergen, pollen in region['Pollen'].items(): built[i] is
\* new_region['pollen'] after i allergens, or the exception raised on the way.
BuildAllergens(lg, pollen, today) ==
  LET built[i \in 0..Len(pollen)] ==
        IF i = 0 THEN Ok(EmptyDict)
        ELSE BuildNext(lg, pollen[i], today, built[i - 1])
  IN built[Len(pollen)]

\* new_region once its pollen dict is filled
NewRegion(st, region, pollen) ==
  IF pollen.exc # "none" THEN pollen
  ELSE Ok([region_id |-> region.region_id,
           region_name |-> region.region_name,
           partregion_id |-> region.partregion_id,
           partregion_name |-> region.partregion_name,
           last_update |-> st.last_update,
           next_update |-> st.next_update,
           pollen |-> pollen.val])

\* The body of update()'s region loop for one region: new_region
BuildRegion(st, region, today) ==
  IF \E f \in {"region_id", "region_name", "partregion_id", "partregion_name", "Pollen"} :
       f \notin DOMAIN region
  THEN Raise("KeyError")
  ELSE NewRegion(st, region, BuildAllergens(st.legend, region.Pollen, today))

\* self.data[f"..."] = new_region: a region is stored as soon as it is built
StoreRegion(st, key, new_region) ==
  IF new_region.exc # "none" THEN Failed(st, new_region.exc)
  ELSE Done([st EXCEPT !.data = Put(@, key, new_region.val)])

StoreNext(pass, region, today) ==
  IF pass.exc # "none" THEN pass
  ELSE StoreRegion(pass.st, RegionKey(region.region_id, region.partregion_id),
                   BuildRegion(pass.st, region, today))

\* for region in data['content']: pass[i] is the client after i regions and
\* the exception that ended the loop, if one did.
BuildRegions(st, content, today) ==
  LET pass[i \in 0..Len(content)] ==
        IF i = 0 THEN Done(st) ELSE StoreNext(pass[i - 1], content[i], today)
  IN pass[Len(content)]

\* An update that would store the regions into the Store as it was.
ResetDataNot(st) == st

\* self.data = {} before the region loop
ResetData(st) == [st EXCEPT !.data = EmptyDict]

\* update(), from the payload p get_data returned to the last region stored.
\* Each field is assigned in place, in the order of the source; the stages
\* below are its statements, last first.

\* self.data = {}; for region in data['content']: ...
RebuildData(st, p, today) ==
  IF "content" \notin DOMAIN p THEN Failed(ResetData(st), "KeyError")
  ELSE BuildRegions(ResetData(st), p.content, today)

\* self.legend = build_legend(data['legend']), lg being build_legend's outcome
AssignLegend(st, p, today, lg) ==
  IF lg.exc # "none" THEN Failed(st, lg.exc)
  ELSE RebuildData([st EXCEPT !.legend = lg.val], p, today)

RebuildLegend(st, p, today) ==
  IF "legend" \notin DOMAIN p THEN Failed(st, "KeyError")
  ELSE AssignLegend(st, p, today, build_legend(p.legend))

\* self.next_update = strptime(data['next_update'], ...), nu being its outcome
AssignNextUpdate(st, p, today, nu) ==
  IF nu.exc # "none" THEN Failed(st, nu.exc)
  ELSE RebuildLegend([st EXCEPT !.next_update = nu.val], p, today)

RebuildNextUpdate(st, p, today) ==
  IF "next_update" \notin DOMAIN p THEN Failed(st, "KeyError")
  ELSE AssignNextUpdate(st, p, today, strptime(p.next_update))

\* self.last_update = strptime(data['last_update'], ...), lu being its outcome
AssignLastUpdate(st, p, today, lu) ==
  IF lu.exc # "none" THEN Failed(st, lu.exc)
  ELSE RebuildNextUpdate([st EXCEPT !.last_update = lu.val], p, today)

Rebuild(st, p, today) ==
  IF "last_update" \notin DOMAIN p THEN Failed(st, "KeyError")
  ELSE AssignLastUpdate(st, p, today, strptime(p.last_update))

\* AsyncDwdPollenApi.update(), from the payload get_data_async returned: the
\* same statements as update()'s without `self.data = {}`, so the regions are
\* stored into the Store as it was.
AsyncRebuildData(st, p, today) ==
  IF "content" \notin DOMAIN p THEN Failed(st, "KeyError")
  ELSE BuildRegions(st, p.content, today)

AsyncAssignLegend(st, p, today, lg) ==
  IF lg.exc # "none" THEN Failed(st, lg.exc)
  ELSE AsyncRebuildData([st EXCEPT !.legend = lg.val], p, today)

AsyncRebuildLegend(st, p, today) ==
  IF "legend" \notin DOMAIN p THEN Failed(st, "KeyError")
  ELSE AsyncAssignLegend(st, p, today, build_legend(p.legend))

AsyncAssignNextUpdate(st, p, today, nu) ==
  IF nu.exc # "none" THEN Failed(st, nu.exc)
  ELSE AsyncRebuildLegend([st EXCEPT !.next_update = nu.val], p, today)

AsyncRebuildNextUpdate(st, p, today) ==
  IF "next_update" \notin DOMAIN p THEN Failed(st, "KeyError")
  ELSE AsyncAssignNextUpdate(st, p, today, strptime(p.next_update))

AsyncAssignLastUpdate(st, p, today, lu) ==
  IF lu.exc # "none" THEN Failed(st, lu.exc)
  ELSE AsyncRebuildNextUpdate([st EXCEPT !.last_update = lu.val], p, today)

AsyncRebuild(st, p, today) ==
  IF "last_update" \notin DOMAIN p THEN Failed(st, "KeyError")
  ELSE AsyncAssignLastUpdate(st, p, today, strptime(p.last_update))

\* ------------------------------------------------------------ the snapshot file

\* The cache file: absent, or its content and what reading it yields.
NoFile == [kind |-> "absent"]
\* A file holding the JSON object doc.
JsonObject(doc) == [kind |-> "object", doc |-> doc]
\* A file whose text is not JSON (cut short, empty, garbage).
InvalidJson == [kind |-> "invalid"]
\* A file holding JSON that is not an object (a list, a number, null).
JsonNonObject == [kind |-> "nonobject"]
\* A file that exists and cannot be opened for reading.
Unreadable == [kind |-> "unreadable"]

\* json.dump(..., cls=DateTimeEncoder) of the Store: the datetimes a region
\* carries (its last_update / next_update) are written as ISO strings.
DumpRegion(region) ==
  [f \in DOMAIN region |->
     IF f \in {"last_update", "next_update"} THEN DateTimeEncoder(region[f])
     ELSE region[f]]

DumpData(d) == [k \in DOMAIN d |-> DumpRegion(d[k])]

\* self.last_update.isoformat() if self.last_update else None
IsoOrNone(t) == IF t = None THEN None ELSE isoformat(t)

\* save_to_cache's cache_data, as json.dump writes it
Snapshot(st) ==
  [data |-> DumpData(st.data), legend |-> st.legend,
   last_update |-> IsoOrNone(st.last_update),
   next_update |-> IsoOrNone(st.next_update)]

\* save_to_cache: the file after it. The write succeeds ("ok"), fails before the
\* file is opened ("open": directory or permission, the file is as it was) or
\* fails after the file was truncated ("write": the file holds a cut document).
save_to_cache(st, file, w) ==
  IF w = "ok" THEN JsonObject(Snapshot(st))
  ELSE IF w = "open" THEN file
  ELSE InvalidJson

\* A staleness test that would count an age equal to cache_duration as stale.
IsExpiredAtBoundary(age, cache_duration) == age >= cache_duration

\* time.time() - file_mod_time > self.cache_duration
IsExpired(age, cache_duration) == age > cache_duration

\* cache_data.get(key, default)
DictGet(doc, key, default) == IF key \in DOMAIN doc THEN doc[key] ELSE default

\* if last_update_str: (None and the empty string are falsy)
Truthy(v) == v # None

\* bool(self.data)
NonEmpty(d) == DOMAIN d # {}

\* load_from_cache: the client's fields after it, the exception that leaves it
\* (IOError and JSONDecodeError are caught inside) and the value returned.
Loaded(st, exc, ret) == [st |-> st, exc |-> exc, ret |-> ret]

load_from_cache(st, file, age, cache_duration) ==
  IF file.kind = "absent" THEN Loaded(st, "none", FALSE)
  ELSE IF IsExpired(age, cache_duration) THEN Loaded(st, "none", FALSE)
  ELSE IF file.kind = "unreadable" \/ file.kind = "invalid" THEN Loaded(st, "none", FALSE)
  ELSE IF file.kind = "nonobject" THEN Loaded(st, "AttributeError", FALSE)
  ELSE LET cache_data == file.doc
           s1 == [st EXCEPT !.data = DictGet(cache_data, "data", EmptyDict),
                            !.legend = DictGet(cache_data, "legend", EmptyDict)]
           last_update_str == DictGet(cache_data, "last_update", None)
           next_update_str == DictGet(cache_data, "next_update", None)
           lu == IF Truthy(last_update_str) THEN fromisoformat(last_update_str)
                 ELSE Ok(s1.last_update)
       IN IF lu.exc # "none" THEN Loaded(s1, lu.exc, FALSE)
          ELSE LET s2 == [s1 EXCEPT !.last_update = lu.val]
                   nu == IF Truthy(next_update_str) THEN fromisoformat(next_update_str)
                         ELSE Ok(s2.next_update)
               IN IF nu.exc # "none" THEN Loaded(s2, nu.exc, FALSE)
                  ELSE Loaded([s2 EXCEPT !.next_update = nu.val], "none",
                              NonEmpty(s2.data))

\* ------------------------------------------------------------ the inputs

\* The publisher's timestamp string naming instant t.
Uhr(t) == TimeStr("uhr", t)

\* legend objects as the publisher sends them: code keys with _desc siblings
LegendFull ==
  << << <<"id1">>, "0" >>, << <<"id1", "_desc">>, "keine Belastung" >>,
     << <<"id3">>, "1" >>, << <<"id3", "_desc">>, "geringe Belastung" >>,
     << <<"id4">>, "1-2" >>, << <<"id4", "_desc">>, "geringe bis mittlere Belastung" >>,
     << <<"id5">>, "2" >>, << <<"id5", "_desc">>, "mittlere Belastung" >>,
     << <<"id7">>, "3" >>, << <<"id7", "_desc">>, "hohe Belastung" >> >>

\* a legend with no entry for the code "3"
LegendNo3 == SubSeq(LegendFull, 1, 8)

\* a legend whose last code lacks its _desc sibling
LegendNoDesc == SubSeq(LegendFull, 1, 9)

\* region objects of the payload's content
RegionA ==
  [region_id |-> 50, region_name |-> "Brandenburg und Berlin",
   partregion_id |-> -1, partregion_name |-> "",
   Pollen |-> << <<"Birke", [today |-> "3", tomorrow |-> "2", dayafter_to |-> "1"]>>,
                 <<"Hasel", [today |-> "0", tomorrow |-> "0", dayafter_to |-> "-1"]>> >>]

RegionB ==
  [region_id |-> 10, region_name |-> "Schleswig-Holstein und Hamburg",
   partregion_id |-> 11, partregion_name |-> "Inseln und Marschen",
   Pollen |-> << <<"Birke", [today |-> "1-2", tomorrow |-> "1", dayafter_to |-> "-1"]>> >>]

\* a region object with no partregion_name
RegionNoName ==
  [region_id |-> 10, region_name |-> "Schleswig-Holstein und Hamburg",
   partregion_id |-> 12,
   Pollen |-> << <<"Birke", [today |-> "0", tomorrow |-> "0", dayafter_to |-> "0"]>> >>]

Payload(lu, nu, lg, content) ==
  [last_update |-> lu, next_update |-> nu, legend |-> lg, content |-> content]

\* The instants the good payloads' last_update names.
Stamps == {1}

\* Payloads every region of which builds on every weekday.
GoodPayloads ==
  { Payload(Uhr(t), Uhr(t + 1), LegendFull, c) :
      t \in Stamps, c \in { <<>>, <<RegionA>>, <<RegionB, RegionA>> } }

\* Payloads the rebuild pass can fail on: a code with no legend entry, a code
\* key with no description, a region with a field missing, a timestamp in
\* another format, no content at all.
BadPayloads ==
  { Payload(Uhr(1), Uhr(2), LegendNo3, <<RegionB, RegionA>>),
    Payload(Uhr(2), Uhr(3), LegendNoDesc, <<RegionA>>),
    Payload(Uhr(2), Uhr(3), LegendFull, <<RegionA, RegionNoName>>),
    Payload(Uhr(2), TimeStr("other", 3), LegendFull, <<RegionA>>),
    [last_update |-> Uhr(2), next_update |-> Uhr(3), legend |-> LegendFull] }

Payloads == GoodPayloads \cup BadPayloads

\* The day numbers a client runs on (day 0 is a Monday): a Friday, when all
\* three slots are dated, and a Sunday, when at most the day-after slot is.
Days == {4, 6}

\* The composite keys get_pollen is asked for: the two regions' keys.
Keys == {RegionKey(50, -1), RegionKey(10, 11)}

\* The allergen names looked up: one every region has, one only region 50 has.
Allergens == {"Birke", "Hasel"}

\* Snapshot files another program (or an earlier version) may leave behind.
ForeignFiles ==
  { InvalidJson, JsonNonObject, Unreadable,
    JsonObject([legend |-> [x \in {"0"} |-> "keine Belastung"]]),
    JsonObject([data |-> EmptyDict, legend |-> EmptyDict,
                last_update |-> TimeStr("iso", 1), next_update |-> TimeStr("iso", 2)]),
    JsonObject([data |-> EmptyDict, legend |-> EmptyDict,
                last_update |-> TimeStr("other", 1), next_update |-> TimeStr("iso", 2)]) }

\* ------------------------------------------------------------ the state

VARIABLES
  data,            \* self.data: region key -> region forecast
  legend,          \* self.legend
  last_update,     \* self.last_update
  next_update,     \* self.next_update
  cache_duration,  \* self.cache_duration
  file,            \* the snapshot file
  age,             \* time.time() - getmtime(file), in ticks
  today,           \* the calendar day datetime.now() falls on
  pc,              \* "idle" between calls, "get_data" while a fetch loops,
                   \* "get_data_async" while the asynchronous fetch is awaited,
                   \* "returned" when a call has just returned or raised
  attempt,         \* get_data's attempt
  retry_count,     \* get_data's retry_count
  net,             \* what the running or last get_data did on the transport
  op,              \* the call in progress or last finished, and what it did
  ret,             \* what the last finished call returned or raised
  tasks,           \* the coroutines of the event loop: where each one stands
  initialization_task,  \* self._initialization_task: None or the task's handle
  awaits,          \* how often `await self._initialization_task` was executed
  writer           \* the other processes inside save_to_cache and the file's text

\* What runs beside the calls of one thread: the tasks of the event loop and
\* the client's handle of its initialization task, and another process
\* writing the snapshot file.
concurrent == <<tasks, initialization_task, awaits, writer>>

vars == <<data, legend, last_update, next_update, cache_duration, file, age, today,
          pc, attempt, retry_count, net, op, ret, tasks, initialization_task, awaits,
          writer>>

client == ClientState(data, legend, last_update, next_update)

\* A call that has not returned yet.
Running == [exc |-> "running"]

\* No call has returned: there is no result.
NoRet == [exc |-> "idle"]

\* What a get_data call did: its transport calls, the failed ones among them,
\* and the delays it slept.
NoNet == [calls |-> 0, fails |-> 0, delays |-> 0]

\* What a call did: its name and force flag; the client's fields, the file and
\* its age when it was called; whether it read the cache and whether that was
\* usable; how its fetch ended ("none": no fetch, "running", "ok", "exhausted");
\* the retry_count its get_data ran with; the payload fetched; whether it
\* wrote the snapshot and how the write ended; the key a get_pollen looks up
\* and the update() calls it made; the allergen get_allergen_for_region
\* looks up; of a run of the command line its arguments, the statement main()
\* goes on with, how the update() it last called ended, what it printed and
\* the exit status of the process.
OpRecord(name, force, pre, preFile, preAge) ==
  [name |-> name, force |-> force, pre |-> pre, preFile |-> preFile,
   preAge |-> preAge, loads |-> 0, usable |-> FALSE, fetch |-> "none",
   retry_count |-> 0, payload |-> None, saved |-> FALSE, write |-> "none",
   key |-> None, updates |-> 0, allergen |-> None,
   args |-> None, stage |-> "none", upd |-> Ok(None), out |-> "none", exit |-> 0]

NewOp(name, force) == OpRecord(name, force, client, file, age)

\* No call in progress or just returned.
NoOp == OpRecord("none", FALSE, None, NoFile, 0)

\* A coroutine that is not running: no call, nothing awaited (<<>> and "":
\* no key and no allergen asked for).
NoTask ==
  [name |-> "none", pos |-> "idle", key |-> <<>>, allergen |-> "",
   payload |-> None, i |-> 0, result |-> Ok(None), waited |-> FALSE]

\* The coroutines: the task __init__ creates, and two callers' coroutines.
Readers == {"r1", "r2"}
TaskIds == {"init"} \cup Readers

\* What asyncio.create_task returns for coroutine t.
TaskHandle(t) == [type |-> "Task", id |-> t]

\* No event loop, or one with nothing to run.
NoTasks == [t \in TaskIds |-> NoTask]

\* The other processes that save snapshots to the same cache file.
Writers == {"w1", "w2"}

\* A process that is not inside save_to_cache.
NoProc == [pos |-> "idle", doc |-> 0, flushed |-> 0]

\* No other process is writing the snapshot file.
NoWriter == [text |-> <<>>, procs |-> [w \in Writers |-> NoProc], last |-> 0]

Sequential ==
  /\ tasks = NoTasks
  /\ initialization_task = None
  /\ awaits = 0
  /\ writer = NoWriter

Init ==
  /\ Sequential
  /\ data = EmptyDict
  /\ legend = None
  /\ last_update = None
  /\ next_update = None
  /\ cache_duration \in 1..MaxCacheDuration
  /\ file = NoFile
  /\ age = 0
  /\ today \in Days
  /\ pc = "idle"
  /\ attempt = 0
  /\ retry_count = 0
  /\ net = NoNet
  /\ op = NoOp
  /\ ret = NoRet

SetClient(st) ==
  /\ data' = st.data
  /\ legend' = st.legend
  /\ last_update' = st.last_update
  /\ next_update' = st.next_update

\* A call returns or raises r, having done o; get_data's locals are gone.
Finish(o, r) ==
  /\ pc' = "returned"
  /\ attempt' = 0
  /\ retry_count' = 0
  /\ op' = o
  /\ ret' = r

\* A call enters get_data(url, retry_count = rc).
EnterGetData(o, rc) ==
  /\ pc' = "get_data"
  /\ attempt' = 0
  /\ retry_count' = rc
  /\ net' = NoNet
  /\ op' = [o EXCEPT !.fetch = "running", !.retry_count = rc]
  /\ ret' = Running

\* An update that would read the cache whatever the force flag says.
TriesCacheAlways(force) == TRUE

\* An update that would never take the early return of a cache hit.
CacheHitNever(force, usable) == FALSE

\* A loop that would run two passes more.
LoopGuardTwoMore(a, rc) == a < rc + 2

\* A loop that would stop one pass early, and one that would run a pass more.
LoopGuardShort(a, rc) == a < rc - 1
LoopGuardLong(a, rc) == a <= rc

\* update(): `not force`, the left operand that decides whether the cache is read
TriesCache(force) == ~force

\* update(): `not force and self.load_from_cache()`, the test of the early return
CacheHit(force, usable) == ~force /\ usable

\* update(): the exceptions its except clause turns into a False result
UpdateCatches(e) == e \in {"RequestException", "ValueError", "KeyError", "OSError"}

\* get_data(): while attempt < retry_count
LoopGuard(a, rc) == a < rc

\* A loop that would sleep after every failed attempt, the last included.
SleepsAfterEvery(a, rc) == TRUE

\* get_data(): if attempt < retry_count: time.sleep(retry_delay), after attempt += 1
SleepsAfter(a, rc) == a < rc

\* The three ways a write of the snapshot can end.
WriteOutcomes == {"ok", "open", "write"}

\* The file and its age after save_to_cache of st ends as w.
WriteFile(st, w) ==
  /\ file' = save_to_cache(st, file, w)
  /\ age' = IF w = "open" THEN age ELSE 0

\* A save_to_cache that would let a failed write out to its caller.
SaveCatchesNothing(e) == FALSE

\* save_to_cache(): the exception a write ending as w raises inside it
\* (IOError is OSError; PermissionError and the like are subclasses)
WriteError(w) == IF w = "ok" THEN "none" ELSE "OSError"

\* save_to_cache(): except IOError
SaveCatches(e) == e = "OSError"

\* What leaves save_to_cache when the write inside it raised e.
SaveRaises(e) == IF e = "none" \/ SaveCatches(e) THEN "none" ELSE e

\* update()'s result when the statements of its try block raised e
\* ("none": they ran to return True).
UpdateResult(e) ==
  IF e = "none" THEN Ok(TRUE)
  ELSE IF UpdateCatches(e) THEN Ok(FALSE)
  ELSE Raise(e)

\* get_pollen() after the update it called ended as r, the Store being d:
\* return self.data[key]
LookupAfter(d, key, r) ==
  IF r.exc # "none" THEN r
  ELSE IF key \in DOMAIN d THEN Ok(d[key])
  ELSE Raise("KeyError")

\* A lookup that would give an empty forecast for an allergen the region lacks.
AllergenOfDefault(r, allergen_name) ==
  IF r.exc # "none" THEN r
  ELSE IF allergen_name \in DOMAIN r.val.pollen THEN Ok(r.val.pollen[allergen_name])
  ELSE Ok(EmptyDict)

\* get_allergen_for_region() after its get_pollen ended as r:
\* return region_data['pollen'][allergen_name]
AllergenOf(r, allergen_name) ==
  IF r.exc # "none" THEN r
  ELSE IF allergen_name \in DOMAIN r.val.pollen THEN Ok(r.val.pollen[allergen_name])
  ELSE Raise("KeyError")

\* ------------------------------------------------------------ the accessors

\* An order of the region tuples that would put the greater ids first.
TupleMore(a, b) == a[1] > b[1] \/ (a[1] = b[1] /\ a[2] > b[2])

\* Python's order of (region_id, partregion_id, ...) tuples with distinct ids.
TupleLess(a, b) == a[1] < b[1] \/ (a[1] = b[1] /\ a[2] < b[2])

\* The order of the allergen names the payloads have.
NameLess(a, b) == a = "Birke" /\ b = "Hasel"

\* The order of '%Y-%m-%d' strings: that of the days they name.
DateLess(a, b) == a.t < b.t

\* sorted(S)
sorted(S, Less(_, _)) ==
  CHOOSE q \in [1..Cardinality(S) -> S] :
    \A i, j \in 1..Cardinality(S) : i < j => Less(q[i], q[j])

\* get_region_names(): one tuple for each item of self.data, sorted
get_region_names(d) ==
  sorted({ <<d[k].region_id, d[k].partregion_id, d[k].region_name,
             d[k].partregion_name>> : k \in DOMAIN d }, TupleLess)

\* A collection that would keep the allergens every region has.
CommonAllergens(d) ==
  { a \in UNION { DOMAIN d[k].pollen : k \in DOMAIN d } :
      \A k \in DOMAIN d : a \in DOMAIN d[k].pollen }

\* get_allergen_names(): the set `allergens` after the loops over self.data
CollectAllergens(d) == UNION { DOMAIN d[k].pollen : k \in DOMAIN d }

\* get_allergen_names(): return sorted(list(allergens))
get_allergen_names(d) == sorted(CollectAllergens(d), NameLess)

\* A collection that would keep the dates every allergen has.
CommonDates(pollen) ==
  { date \in UNION { DOMAIN pollen[a] : a \in DOMAIN pollen } :
      \A a \in DOMAIN pollen : date \in DOMAIN pollen[a] }

\* get_forecast_summary(): the set `dates` after the loops over
\* region_data['pollen']
CollectDates(pollen) == UNION { DOMAIN pollen[a] : a \in DOMAIN pollen }

\* get_forecast_summary(): date_summary for one date
DateSummary(pollen, date) ==
  [a \in { x \in DOMAIN pollen : date \in DOMAIN pollen[x] } |->
     pollen[a][date].human]

\* get_forecast_summary(): `result`, a dict filled in the order of
\* sorted(dates), as its <<date, date_summary>> items
Summary(pollen) ==
  LET q == sorted(CollectDates(pollen), DateLess)
  IN [i \in 1..Len(q) |-> <<q[i], DateSummary(pollen, q[i])>>]

\* get_forecast_summary() after its get_pollen ended as r
SummaryOf(r) == IF r.exc # "none" THEN r ELSE Ok(Summary(r.val.pollen))

\* What the call o gives its caller when the update() inside it ended as r,
\* the Store being d: update's own result, get_pollen's lookup, or what
\* get_allergen_for_region and get_forecast_summary make of what get_pollen
\* returned.
ResultAfter(o, d, r) ==
  IF o.name \in {"get_pollen", "async_get_pollen"} THEN LookupAfter(d, o.key, r)
  ELSE IF o.name \in {"get_allergen_for_region", "async_get_allergen_for_region"}
  THEN AllergenOf(LookupAfter(d, o.key, r), o.allergen)
  ELSE IF o.name = "get_forecast_summary" THEN SummaryOf(LookupAfter(d, o.key, r))
  ELSE r

\* An update() called by main() ends as r: main() goes on with its next
\* statement.
MainResumes(o, r) ==
  /\ pc' = "main"
  /\ attempt' = 0
  /\ retry_count' = 0
  /\ op' = [o EXCEPT !.upd = r]
  /\ ret' = Running

\* update() ends as r, the Store being d: called on its own that is the
\* call's result, called by get_pollen the lookup follows, called in a run of
\* the command line main() goes on.
UpdateReturns(o, d, r) ==
  IF o.name = "main" THEN MainResumes(o, r) ELSE Finish(o, ResultAfter(o, d, r))

\* update(force) is entered by the call o: the cache is read unless forced,
\* and the update either ends there (a hit, or an exception out of
\* load_from_cache) or goes on into get_data(DWD_URL).
StartUpdate(o, force) ==
  IF TriesCache(force)
  THEN LET lr == load_from_cache(client, file, age, cache_duration)
           ol == [o EXCEPT !.loads = 1, !.usable = lr.exc = "none" /\ lr.ret]
       IN /\ SetClient(lr.st)
          /\ IF lr.exc # "none"
             THEN UpdateReturns(ol, lr.st.data, Raise(lr.exc)) /\ UNCHANGED net
             ELSE IF CacheHit(force, lr.ret)
             THEN UpdateReturns(ol, lr.st.data, Ok(TRUE)) /\ UNCHANGED net
             ELSE EnterGetData(ol, DEFAULT_RETRY_COUNT)
  ELSE /\ UNCHANGED <<data, legend, last_update, next_update>>
       /\ EnterGetData(o, DEFAULT_RETRY_COUNT)

\* A lookup that would find no key in the Store.
HasRegionNever(d, key) == FALSE

\* get_pollen(): key in self.data
HasRegion(d, key) == key \in DOMAIN d

\* update(force) is called.
CallUpdate(force) ==
  /\ pc = "idle"
  /\ UNCHANGED <<cache_duration, file, age, today>>
  /\ StartUpdate([NewOp("update", force) EXCEPT !.updates = 1], force)
  /\ UNCHANGED concurrent

\* get_pollen(region_id, partregion_id) is called, key being the composite
\* key: a key the Store holds is returned at once, any other after one
\* update(force=True).
CallGetPollen(key) ==
  /\ pc = "idle"
  /\ UNCHANGED <<cache_duration, file, age, today>>
  /\ IF HasRegion(data, key)
     THEN /\ Finish([NewOp("get_pollen", FALSE) EXCEPT !.key = key], Ok(data[key]))
          /\ UNCHANGED <<data, legend, last_update, next_update, net>>
     ELSE StartUpdate([NewOp("get_pollen", TRUE) EXCEPT !.key = key, !.updates = 1],
                      TRUE)
  /\ UNCHANGED concurrent

\* get_allergen_for_region(region_id, partregion_id, allergen_name) is called:
\* get_pollen, then the lookup of the allergen in the region it returned.
CallGetAllergenForRegion(key, allergen_name) ==
  /\ pc = "idle"
  /\ UNCHANGED <<cache_duration, file, age, today>>
  /\ LET o == [NewOp("get_allergen_for_region", FALSE) EXCEPT
                 !.key = key, !.allergen = allergen_name]
     IN IF HasRegion(data, key)
        THEN /\ Finish(o, AllergenOf(Ok(data[key]), allergen_name))
             /\ UNCHANGED <<data, legend, last_update, next_update, net>>
        ELSE StartUpdate([o EXCEPT !.force = TRUE, !.updates = 1], TRUE)
  /\ UNCHANGED concurrent

\* get_forecast_summary(region_id, partregion_id) is called: get_pollen, then
\* the summary of the region it returned.
CallGetForecastSummary(key) ==
  /\ pc = "idle"
  /\ UNCHANGED <<cache_duration, file, age, today>>
  /\ LET o == [NewOp("get_forecast_summary", FALSE) EXCEPT !.key = key]
     IN IF HasRegion(data, key)
        THEN /\ Finish(o, SummaryOf(Ok(data[key])))
             /\ UNCHANGED <<data, legend, last_update, next_update, net>>
        ELSE StartUpdate([o EXCEPT !.force = TRUE, !.updates = 1], TRUE)
  /\ UNCHANGED concurrent

\* get_region_names() is called.
CallGetRegionNames ==
  /\ pc = "idle"
  /\ Finish(NewOp("get_region_names", FALSE), Ok(get_region_names(data)))
  /\ UNCHANGED <<data, legend, last_update, next_update, cache_duration, file, age,
                 today, net>>
  /\ UNCHANGED concurrent

\* get_allergen_names() is called.
CallGetAllergenNames ==
  /\ pc = "idle"
  /\ Finish(NewOp("get_allergen_names", FALSE), Ok(get_allergen_names(data)))
  /\ UNCHANGED <<data, legend, last_update, next_update, cache_duration, file, age,
                 today, net>>
  /\ UNCHANGED concurrent

\* get_data(url, retry_count = rc) is called on its own.
CallGetData(rc) ==
  /\ pc = "idle"
  /\ EnterGetData(NewOp("get_data", FALSE), rc)
  /\ UNCHANGED <<data, legend, last_update, next_update, cache_duration, file, age,
                 today>>
  /\ UNCHANGED concurrent

\* One pass of get_data's loop whose request fails (RequestException, or
\* ValueError / KeyError from the body): the attempt is counted and, unless it
\* was the last, the delay is slept.
AttemptFails ==
  /\ pc = "get_data"
  /\ LoopGuard(attempt, retry_count)
  /\ attempt' = attempt + 1
  /\ net' = [calls |-> net.calls + 1, fails |-> net.fails + 1,
             delays |-> IF SleepsAfter(attempt + 1, retry_count)
                        THEN net.delays + 1 ELSE net.delays]
  /\ UNCHANGED <<data, legend, last_update, next_update, cache_duration, file, age,
                 today, pc, retry_count, op, ret>>
  /\ UNCHANGED concurrent

\* What update() keeps of the fetch once get_data has returned or raised.
Fetched(o, how, p) == [o EXCEPT !.fetch = how, !.payload = p]

\* update() after its rebuild pass ended as rb: the snapshot is written if
\* the pass raised nothing; an exception the except clause names gives False.
UpdateEnds(o, rb) ==
  /\ SetClient(rb.st)
  /\ IF rb.exc = "none"
     THEN \E w \in WriteOutcomes :
            /\ WriteFile(rb.st, w)
            /\ UpdateReturns([o EXCEPT !.saved = TRUE, !.write = w], rb.st.data,
                             UpdateResult(SaveRaises(WriteError(w))))
     ELSE /\ UNCHANGED <<file, age>>
          /\ UpdateReturns(o, rb.st.data, UpdateResult(rb.exc))

\* One pass of get_data's loop whose request succeeds with payload p:
\* get_data returns p. Called on its own, that is the result; inside update()
\* the rebuild pass runs and the update ends.
AttemptSucceeds(p) ==
  /\ pc = "get_data"
  /\ LoopGuard(attempt, retry_count)
  /\ net' = [net EXCEPT !.calls = @ + 1]
  /\ UNCHANGED <<cache_duration, today>>
  /\ IF op.name = "get_data"
     THEN /\ Finish(Fetched(op, "ok", p), Ok(p))
          /\ UNCHANGED <<data, legend, last_update, next_update, file, age>>
     ELSE UpdateEnds(Fetched(op, "ok", p), Rebuild(client, p, today))
  /\ UNCHANGED concurrent

\* get_data's loop ends with every attempt failed: it raises DwdPollenError,
\* which update()'s except clause does not name.
Exhausted ==
  /\ pc = "get_data"
  /\ ~LoopGuard(attempt, retry_count)
  /\ IF op.name = "get_data"
     THEN Finish(Fetched(op, "exhausted", None), Raise("DwdPollenError"))
     ELSE UpdateReturns(Fetched(op, "exhausted", None), data,
                        UpdateResult("DwdPollenError"))
  /\ UNCHANGED <<data, legend, last_update, next_update, cache_duration, file, age,
                 today, net>>
  /\ UNCHANGED concurrent

\* load_from_cache() is called on its own.
CallLoadFromCache ==
  /\ pc = "idle"
  /\ LET lr == load_from_cache(client, file, age, cache_duration)
         o == [NewOp("load_from_cache", FALSE) EXCEPT
                 !.loads = 1, !.usable = lr.exc = "none" /\ lr.ret]
     IN /\ SetClient(lr.st)
        /\ Finish(o, IF lr.exc # "none" THEN Raise(lr.exc) ELSE Ok(lr.ret))
  /\ UNCHANGED <<cache_duration, file, age, today, net>>
  /\ UNCHANGED concurrent

\* DwdPollenApi(cache_duration = cd, auto_update = False): a fresh client
\* over the same cache file.
Construct(cd) ==
  /\ pc = "idle"
  /\ SetClient(ClientState(EmptyDict, None, None, None))
  /\ cache_duration' = cd
  /\ Finish(NewOp("init", FALSE), Ok(None))
  /\ UNCHANGED <<file, age, today, net>>
  /\ UNCHANGED concurrent

\* The caller takes the result and goes on; the record of the call is
\* dropped: what a call did is looked at in the state it returns in. With a
\* run of the command line its process ends, and its client with it.
Return ==
  /\ pc = "returned"
  /\ pc' = "idle"
  /\ op' = NoOp
  /\ ret' = NoRet
  /\ net' = NoNet
  /\ IF op.name = "main"
     THEN SetClient(ClientState(EmptyDict, None, None, None))
     ELSE UNCHANGED <<data, legend, last_update, next_update>>
  /\ UNCHANGED <<cache_duration, file, age, today, attempt, retry_count>>
  /\ UNCHANGED concurrent

\* Time passes between two calls: the snapshot file grows older. (Time that
\* passes inside a call changes nothing the call still reads.)
Tick ==
  /\ pc = "idle"
  /\ file.kind # "absent"
  /\ age < MaxAge
  /\ age' = age + 1
  /\ UNCHANGED <<data, legend, last_update, next_update, cache_duration, file,
                 today, pc, attempt, retry_count, net, op, ret>>
  /\ UNCHANGED concurrent

\* Something else writes the snapshot file.
ExternalWrite(f) ==
  /\ pc = "idle"
  /\ file' = f
  /\ age' = 0
  /\ UNCHANGED <<data, legend, last_update, next_update, cache_duration,
                 today, pc, attempt, retry_count, net, op, ret>>
  /\ UNCHANGED concurrent

\* Something else removes the snapshot file.
ExternalDelete ==
  /\ pc = "idle"
  /\ file.kind # "absent"
  /\ file' = NoFile
  /\ age' = 0
  /\ UNCHANGED <<data, legend, last_update, next_update, cache_duration,
                 today, pc, attempt, retry_count, net, op, ret>>
  /\ UNCHANGED concurrent

\* The blocking client over its cache file.
Next ==
  \/ \E force \in BOOLEAN : CallUpdate(force)
  \/ AttemptFails
  \/ \E p \in Payloads : AttemptSucceeds(p)
  \/ Exhausted
  \/ Return
  \/ \E key \in Keys : CallGetPollen(key)
  \/ \E key \in Keys, allergen_name \in Allergens :
       CallGetAllergenForRegion(key, allergen_name)
  \/ CallLoadFromCache
  \/ \E cd \in 1..MaxCacheDuration : Construct(cd)
  \/ Tick
  \/ \E f \in ForeignFiles : ExternalWrite(f)
  \/ ExternalDelete

Spec == Init /\ [][Next]_vars

\* The blocking client's accessors over the Stores its updates leave.
NextRead ==
  \/ \E force \in BOOLEAN : CallUpdate(force)
  \/ AttemptFails
  \/ \E p \in Payloads : AttemptSucceeds(p)
  \/ Exhausted
  \/ Return
  \/ \E key \in Keys : CallGetPollen(key)
  \/ \E key \in Keys, allergen_name \in Allergens :
       CallGetAllergenForRegion(key, allergen_name)
  \/ \E key \in Keys : CallGetForecastSummary(key)
  \/ CallGetRegionNames
  \/ CallGetAllergenNames

SpecRead == Init /\ [][NextRead]_vars

\* update() called again and again, each call running to its return.
NextUpdate ==
  \/ \E force \in BOOLEAN : CallUpdate(force)
  \/ AttemptFails
  \/ \E p \in Payloads : AttemptSucceeds(p)
  \/ Exhausted
  \/ Return

\* The scheduling get_data's loop relies on: a pass whose request is not
\* answered fails in the end (requests.get returns or raises, time.sleep
\* returns), and the loop is left once the condition of the while is false.
\* Cache reads and writes are steps of the call that makes them.
SpecTerm ==
  /\ Init /\ [][NextUpdate]_vars
  /\ WF_<<pc, attempt>>(AttemptFails)
  /\ WF_<<pc, attempt>>(Exhausted)

\* ------------------------------------------------------ the command line
\* One run of cli.main() is one process: it constructs a DwdPollenApi of its
\* own over the cache file the runs share.

\* The arguments of a run: -r (<<>> when it is not given, args.region being
\* None then) and -p (default -1), --no-cache, --list.
MainArgs ==
  [region : {<<>>, <<50>>}, partregion : {-1, 11}, no_cache : BOOLEAN,
   list : BOOLEAN]

\* The exit status of a process whose main() ended as r: 0 when it returned,
\* 1 after sys.exit(1) and after an exception nothing caught.
ExitStatus(r) == IF r.exc = "none" THEN 0 ELSE 1

\* main() ends as r having printed out ("regions": the region list, "data":
\* the region's forecast, "help_error", "error_404", "error_500": the JSON
\* error objects, "none": nothing, the interpreter prints the traceback).
MainExits(o, out, r) ==
  Finish([o EXCEPT !.out = out, !.exit = ExitStatus(r), !.stage = "ended"], r)

\* get_pollen_data(): except KeyError, and main(): except (KeyError, ValueError)
GetPollenDataCatches(e) == e = "KeyError"
MainCatches(e) == e \in {"KeyError", "ValueError"}

\* main() after print_json's api.get_pollen ended as r: the forecast is
\* printed; a KeyError becomes the 404 object, printed like a forecast, and
\* main() returns; a ValueError becomes the 500 object and sys.exit(1).
PrintJson(o, r) ==
  IF r.exc = "none" THEN MainExits(o, "data", Ok(None))
  ELSE IF GetPollenDataCatches(r.exc) THEN MainExits(o, "error_404", Ok(None))
  ELSE IF MainCatches(r.exc) THEN MainExits(o, "error_500", Raise("SystemExit"))
  ELSE MainExits(o, "none", r)

\* main() from `if args.list:` on.
MainDispatch(o) ==
  IF o.args.list
  THEN /\ MainExits(o, "regions", Ok(None))
       /\ UNCHANGED <<data, legend, last_update, next_update, net>>
  ELSE IF o.args.region = <<>>
  THEN /\ MainExits(o, "help_error", Raise("SystemExit"))
       /\ UNCHANGED <<data, legend, last_update, next_update, net>>
  ELSE LET key == RegionKey(o.args.region[1], o.args.partregion)
       IN IF key \in DOMAIN data
          THEN /\ PrintJson([o EXCEPT !.key = key], Ok(data[key]))
               /\ UNCHANGED <<data, legend, last_update, next_update, net>>
          ELSE StartUpdate([o EXCEPT !.key = key, !.stage = "get_pollen",
                                     !.updates = @ + 1], TRUE)

\* A run of the command line starts: args = parser.parse_args() and the
\* fields DwdPollenApi.__init__ assigns.
CallMain(args) ==
  /\ pc = "idle"
  /\ SetClient(ClientState(EmptyDict, None, None, None))
  /\ pc' = "main"
  /\ op' = [OpRecord("main", FALSE, ClientState(EmptyDict, None, None, None), file, age)
              EXCEPT !.args = args, !.stage = "init"]
  /\ ret' = Running
  /\ UNCHANGED <<cache_duration, file, age, today, attempt, retry_count, net>>
  /\ UNCHANGED concurrent

\* main() goes on: the update() of the constructor; then, unless that raised,
\* update(force=True) under --no-cache; then, unless that raised, the list,
\* the help or the lookup; then what follows the update get_pollen called.
MainStep ==
  /\ pc = "main"
  /\ UNCHANGED <<cache_duration, file, age, today>>
  /\ IF op.stage = "init"
     THEN StartUpdate([op EXCEPT !.stage = "constructed", !.updates = @ + 1], FALSE)
     ELSE IF op.upd.exc # "none" /\ op.stage # "get_pollen"
     THEN /\ MainExits(op, "none", op.upd)
          /\ UNCHANGED <<data, legend, last_update, next_update, net>>
     ELSE IF op.stage = "constructed" /\ op.args.no_cache
     THEN StartUpdate([op EXCEPT !.stage = "no_cache", !.force = TRUE,
                                 !.updates = @ + 1], TRUE)
     ELSE IF op.stage = "get_pollen"
     THEN /\ PrintJson(op, LookupAfter(data, op.key, op.upd))
          /\ UNCHANGED <<data, legend, last_update, next_update, net>>
     ELSE MainDispatch(op)
  /\ UNCHANGED concurrent

NextCli ==
  \/ \E args \in MainArgs : CallMain(args)
  \/ MainStep
  \/ AttemptFails
  \/ \E p \in Payloads : AttemptSucceeds(p)
  \/ Exhausted
  \/ Return
  \/ Tick
  \/ \E f \in ForeignFiles : ExternalWrite(f)
  \/ ExternalDelete

SpecCli == Init /\ [][NextCli]_vars

\* ------------------------------------------------- the asynchronous client
\* AsyncDwdPollenApi has the same fields, no cache file and a fetch of one
\* attempt; the calls below are awaited one after the other.

\* A call awaits get_data_async(DWD_URL).
EnterGetDataAsync(o) ==
  /\ pc' = "get_data_async"
  /\ net' = NoNet
  /\ op' = [o EXCEPT !.fetch = "running", !.updates = 1]
  /\ ret' = Running
  /\ UNCHANGED <<data, legend, last_update, next_update, cache_duration, file, age,
                 today, attempt, retry_count>>

\* await AsyncDwdPollenApi.update() is called.
AsyncCallUpdate ==
  /\ pc = "idle"
  /\ EnterGetDataAsync(NewOp("async_update", TRUE))
  /\ UNCHANGED concurrent

\* await AsyncDwdPollenApi.get_pollen(...) is called with no initialization
\* task pending, key being the composite key: a key the Store holds is
\* returned at once, any other after one update().
AsyncCallGetPollen(key) ==
  /\ pc = "idle"
  /\ IF key \in DOMAIN data
     THEN /\ Finish([NewOp("async_get_pollen", TRUE) EXCEPT !.key = key],
                    Ok(data[key]))
          /\ UNCHANGED <<data, legend, last_update, next_update, cache_duration, file,
                         age, today, net>>
     ELSE EnterGetDataAsync([NewOp("async_get_pollen", TRUE) EXCEPT !.key = key])
  /\ UNCHANGED concurrent

\* await AsyncDwdPollenApi.get_allergen_for_region(...) is called with no
\* initialization task pending: get_pollen, then the allergen's lookup.
AsyncCallGetAllergenForRegion(key, allergen_name) ==
  /\ pc = "idle"
  /\ LET o == [NewOp("async_get_allergen_for_region", TRUE) EXCEPT
                 !.key = key, !.allergen = allergen_name]
     IN IF HasRegion(data, key)
        THEN /\ Finish(o, AllergenOf(Ok(data[key]), allergen_name))
             /\ UNCHANGED <<data, legend, last_update, next_update, cache_duration,
                            file, age, today, net>>
        ELSE EnterGetDataAsync(o)
  /\ UNCHANGED concurrent

\* AsyncDwdPollenApi.update() ends as r (it returns None), the Store being
\* d: awaited on its own that is the result, awaited by get_pollen the lookup
\* follows.
AsyncUpdateReturns(o, d, r) == Finish(o, ResultAfter(o, d, r))

\* What update() raises when its statements after the fetch raised e: there
\* is no try block around them.
AsyncUpdateResult(e) == IF e = "none" THEN Ok(None) ELSE Raise(e)

\* What the one request of get_data_async can raise: no connection, a status
\* that is not 2xx, a body that is not JSON, and the TypeError of awaiting
\* what raise_for_status() returned.
TransportErrors == {"ClientConnectionError", "ClientResponseError", "ContentTypeError",
                    "TypeError"}

\* A get_data_async that would let the transport's exception through.
AsyncFetchCatchesNothing(e) == FALSE

\* get_data_async(): except Exception
AsyncFetchCatches(e) == TRUE

\* What leaves get_data_async when its request raised e.
AsyncFetchRaises(e) == IF AsyncFetchCatches(e) THEN "DwdPollenError" ELSE e

\* get_data_async's one request fails with e: it is wrapped in
\* DwdPollenError, which leaves update().
AsyncFetchFails(e) ==
  /\ pc = "get_data_async"
  /\ net' = [net EXCEPT !.calls = @ + 1, !.fails = @ + 1]
  /\ AsyncUpdateReturns(Fetched(op, "exhausted", None), data,
                        Raise(AsyncFetchRaises(e)))
  /\ UNCHANGED <<data, legend, last_update, next_update, cache_duration, file, age,
                 today>>
  /\ UNCHANGED concurrent

\* get_data_async's request succeeds with payload p and update() runs on it.
AsyncUpdateEnds(o, rb) ==
  /\ SetClient(rb.st)
  /\ AsyncUpdateReturns(o, rb.st.data, AsyncUpdateResult(rb.exc))

AsyncFetchSucceeds(p) ==
  /\ pc = "get_data_async"
  /\ net' = [net EXCEPT !.calls = @ + 1]
  /\ AsyncUpdateEnds(Fetched(op, "ok", p), AsyncRebuild(client, p, today))
  /\ UNCHANGED <<cache_duration, file, age, today>>
  /\ UNCHANGED concurrent

\* AsyncDwdPollenApi(auto_update = False): a fresh client.
AsyncConstruct ==
  /\ pc = "idle"
  /\ SetClient(ClientState(EmptyDict, None, None, None))
  /\ Finish(NewOp("async_init", FALSE), Ok(None))
  /\ UNCHANGED <<cache_duration, file, age, today, net>>
  /\ UNCHANGED concurrent

NextAsync ==
  \/ AsyncCallUpdate
  \/ \E key \in Keys : AsyncCallGetPollen(key)
  \/ \E key \in Keys, allergen_name \in Allergens :
       AsyncCallGetAllergenForRegion(key, allergen_name)
  \/ \E e \in TransportErrors : AsyncFetchFails(e)
  \/ \E p \in Payloads : AsyncFetchSucceeds(p)
  \/ AsyncConstruct
  \/ Return

SpecAsync == Init /\ [][NextAsync]_vars

\* ------------------------------------------------------ the event loop
\* AsyncDwdPollenApi(auto_update) with the task its __init__ creates and two
\* callers' coroutines on one event loop. A coroutine runs until it awaits
\* something that suspends it: the fetch, or an initialization task that is
\* not done. update()'s region loop is run one region a step, so that what
\* another coroutine could do between two regions is a question of who may run.

\* A region loop that would give way to the loop at `await self.build_pollen`.
BuildPollenSuspendsAlways == TRUE

\* `await self.build_pollen(pollen)`: build_pollen awaits nothing, so
\* awaiting it never suspends the caller.
BuildPollenSuspends == FALSE

\* A read that would not look at the initialization task.
HandlePendingNever(h) == FALSE

\* if self._initialization_task is not None
HandlePending(h) == h # None

\* The coroutine t may run: no other coroutine is inside a region loop it
\* cannot be suspended in.
MayRun(t) ==
  \A u \in TaskIds \ {t} : tasks[u].pos = "pass" => BuildPollenSuspends

\* The reads and what each is asked for.
ReadCalls ==
  { [name |-> "get_region_names", key |-> <<>>, allergen |-> ""],
    [name |-> "get_allergen_names", key |-> <<>>, allergen |-> ""] }
  \cup { [name |-> "get_pollen", key |-> k, allergen |-> ""] : k \in Keys }
  \cup { [name |-> "get_allergen_for_region", key |-> k, allergen |-> "Hasel"] :
           k \in Keys }

\* The payloads the event loop's fetches return.
TaskPayloads ==
  { Payload(Uhr(1), Uhr(2), LegendFull, <<RegionA>>),
    Payload(Uhr(1), Uhr(2), LegendFull, <<RegionB, RegionA>>),
    Payload(Uhr(1), Uhr(2), LegendNo3, <<RegionB, RegionA>>) }

\* What the coroutine c gives when the update() inside it ended as r, the
\* Store being d.
TaskResult(c, d, r) ==
  ResultAfter([name |-> c.name, key |-> c.key, allergen |-> c.allergen], d, r)

\* The update() the coroutine t runs ends as r, the Store being d.
EndUpdate(t, d, r) ==
  tasks' = [tasks EXCEPT ![t] = [@ EXCEPT !.pos = "done", !.payload = None, !.i = 0,
                                         !.result = TaskResult(tasks[t], d, r)]]

\* The read of coroutine t goes on after the join, c being its record: the
\* lists are returned, a key the Store holds is looked up, for any other key
\* update() is awaited.
AfterJoin(t, c) ==
  IF c.name = "get_region_names"
  THEN tasks' = [tasks EXCEPT ![t] =
                   [c EXCEPT !.pos = "done", !.result = Ok(get_region_names(data))]]
  ELSE IF c.name = "get_allergen_names"
  THEN tasks' = [tasks EXCEPT ![t] =
                   [c EXCEPT !.pos = "done", !.result = Ok(get_allergen_names(data))]]
  ELSE IF c.key \in DOMAIN data
  THEN tasks' = [tasks EXCEPT ![t] =
                   [c EXCEPT !.pos = "done", !.result = TaskResult(c, data, Ok(None))]]
  ELSE tasks' = [tasks EXCEPT ![t] = [c EXCEPT !.pos = "await_fetch"]]

\* `await self._initialization_task` ends in coroutine t, the task being
\* done: its exception is raised again in t, which leaves the read before
\* the handle is cleared; otherwise the handle is cleared and the read goes on.
Joined(t, c) ==
  IF tasks["init"].result.exc # "none"
  THEN /\ tasks' = [tasks EXCEPT ![t] =
                      [c EXCEPT !.pos = "done", !.result = tasks["init"].result]]
       /\ UNCHANGED initialization_task
  ELSE /\ initialization_task' = None
       /\ AfterJoin(t, c)

\* The event loop starts the task __init__ created: update() runs up to its fetch.
InitTaskStarts ==
  /\ tasks["init"].pos = "ready"
  /\ MayRun("init")
  /\ tasks' = [tasks EXCEPT !["init"].pos = "await_fetch"]
  /\ UNCHANGED <<data, legend, last_update, next_update, cache_duration, file, age,
                 today, pc, attempt, retry_count, net, op, ret, initialization_task,
                 awaits, writer>>

\* A caller's coroutine t starts the read call: while the handle is set it
\* awaits the task, which suspends it unless the task is done.
CallRead(t, call) ==
  /\ tasks[t].pos = "idle"
  /\ MayRun(t)
  /\ LET c == [NoTask EXCEPT !.name = call.name, !.key = call.key,
                             !.allergen = call.allergen, !.result = Running]
     IN IF HandlePending(initialization_task)
        THEN /\ awaits < MaxAwaits
             /\ awaits' = awaits + 1
             /\ IF tasks["init"].pos # "done"
                THEN /\ tasks' = [tasks EXCEPT ![t] =
                                    [c EXCEPT !.pos = "await_init", !.waited = TRUE]]
                     /\ UNCHANGED initialization_task
                ELSE Joined(t, [c EXCEPT !.waited = TRUE])
        ELSE /\ AfterJoin(t, c)
             /\ UNCHANGED <<initialization_task, awaits>>
  /\ UNCHANGED <<data, legend, last_update, next_update, cache_duration, file, age,
                 today, pc, attempt, retry_count, net, op, ret, writer>>

\* The initialization task is done and the loop resumes coroutine t that
\* awaited it.
ReadResumes(t) ==
  /\ tasks[t].pos = "await_init"
  /\ tasks["init"].pos = "done"
  /\ MayRun(t)
  /\ Joined(t, tasks[t])
  /\ UNCHANGED <<data, legend, last_update, next_update, cache_duration, file, age,
                 today, pc, attempt, retry_count, net, op, ret, awaits, writer>>

\* A caller's coroutine t awaits update() itself.
CallUpdateTask(t) ==
  /\ tasks[t].pos = "idle"
  /\ MayRun(t)
  /\ tasks' = [tasks EXCEPT ![t] =
                 [NoTask EXCEPT !.name = "update", !.pos = "await_fetch",
                                !.result = Running]]
  /\ UNCHANGED <<data, legend, last_update, next_update, cache_duration, file, age,
                 today, pc, attempt, retry_count, net, op, ret, initialization_task,
                 awaits, writer>>

\* The fetch coroutine t awaits fails with e: DwdPollenError leaves update().
TaskFetchFails(t, e) ==
  /\ tasks[t].pos = "await_fetch"
  /\ MayRun(t)
  /\ EndUpdate(t, data, Raise(AsyncFetchRaises(e)))
  /\ UNCHANGED <<data, legend, last_update, next_update, cache_duration, file, age,
                 today, pc, attempt, retry_count, net, op, ret, initialization_task,
                 awaits, writer>>

\* update() up to its region loop on payload p: the timestamps and the legend.
UpdateHead(st, p) ==
  IF "content" \in DOMAIN p
  THEN AsyncRebuild(st, [f \in DOMAIN p |-> IF f = "content" THEN <<>> ELSE p[f]], today)
  ELSE AsyncRebuild(st, p, today)

\* The fetch coroutine t awaits returns p: update() assigns the timestamps
\* and the legend and comes to its region loop, or raises on the way.
TaskFetchSucceeds(t, p) ==
  /\ tasks[t].pos = "await_fetch"
  /\ MayRun(t)
  /\ LET head == UpdateHead(client, p)
     IN /\ SetClient(head.st)
        /\ IF head.exc # "none"
           THEN EndUpdate(t, head.st.data, Raise(head.exc))
           ELSE tasks' = [tasks EXCEPT ![t] = [@ EXCEPT !.pos = "pass", !.payload = p,
                                                        !.i = 0]]
  /\ UNCHANGED <<cache_duration, file, age, today, pc, attempt, retry_count, net, op,
                 ret, initialization_task, awaits, writer>>

\* One pass of update()'s region loop in coroutine t: the next region is
\* built and stored, or the loop is over and update() returns.
PassStep(t) ==
  /\ tasks[t].pos = "pass"
  /\ MayRun(t)
  /\ LET c == tasks[t]
     IN IF c.i = Len(c.payload.content)
        THEN /\ EndUpdate(t, data, Ok(None))
             /\ UNCHANGED <<data, legend, last_update, next_update>>
        ELSE LET pass == StoreNext(Done(client), c.payload.content[c.i + 1], today)
             IN /\ SetClient(pass.st)
                /\ IF pass.exc # "none"
                   THEN EndUpdate(t, pass.st.data, Raise(pass.exc))
                   ELSE tasks' = [tasks EXCEPT ![t].i = c.i + 1]
  /\ UNCHANGED <<cache_duration, file, age, today, pc, attempt, retry_count, net, op,
                 ret, initialization_task, awaits, writer>>

\* The caller takes what its coroutine t returned or raised.
TaskReturns(t) ==
  /\ tasks[t].pos = "done"
  /\ tasks' = [tasks EXCEPT ![t] = NoTask]
  /\ UNCHANGED <<data, legend, last_update, next_update, cache_duration, file, age,
                 today, pc, attempt, retry_count, net, op, ret, initialization_task,
                 awaits, writer>>

\* AsyncDwdPollenApi(auto_update) has just been constructed inside a running
\* loop: with auto_update the task is created and its handle kept.
InitTasks ==
  /\ data = EmptyDict
  /\ legend = None
  /\ last_update = None
  /\ next_update = None
  /\ cache_duration = 1
  /\ file = NoFile
  /\ age = 0
  /\ today \in Days
  /\ pc = "idle"
  /\ attempt = 0
  /\ retry_count = 0
  /\ net = NoNet
  /\ op = NoOp
  /\ ret = NoRet
  /\ \E auto_update \in BOOLEAN :
       /\ tasks = [NoTasks EXCEPT !["init"] =
                     IF auto_update
                     THEN [NoTask EXCEPT !.name = "update", !.pos = "ready",
                                         !.result = Running]
                     ELSE NoTask]
       /\ initialization_task = IF auto_update THEN TaskHandle("init") ELSE None
  /\ awaits = 0
  /\ writer = NoWriter

NextTasks ==
  \/ InitTaskStarts
  \/ \E t \in Readers, call \in ReadCalls : CallRead(t, call)
  \/ \E t \in Readers : ReadResumes(t)
  \/ \E t \in Readers : CallUpdateTask(t)
  \/ \E t \in TaskIds, e \in TransportErrors : TaskFetchFails(t, e)
  \/ \E t \in TaskIds, p \in TaskPayloads : TaskFetchSucceeds(t, p)
  \/ \E t \in TaskIds : PassStep(t)
  \/ \E t \in Readers : TaskReturns(t)

SpecTasks == InitTasks /\ [][NextTasks]_vars

\* ------------------------------------------------ processes on one cache file
\* Other processes run save_to_cache on the cache file this client loads:
\* open(cache_file, 'w') truncates the file, json.dump writes the document
\* through the file object's buffer, which reaches the file a part at a time,
\* each part at the writing process's own offset, and the with block closes
\* the file. Nothing locks the file. A text is kept as the parts it is made
\* of: one part for each region of 'data', in the order the regions were
\* stored, and one for what follows them (legend, the timestamps, the last
\* brace).

\* The payloads the writing processes' update() rebuilt their Stores from: no
\* region, one region, and two payloads of the same two regions published
\* one after the other.
RacePayloads ==
  << Payload(Uhr(1), Uhr(2), LegendFull, <<>>),
     Payload(Uhr(1), Uhr(2), LegendFull, <<RegionA>>),
     Payload(Uhr(1), Uhr(2), LegendFull, <<RegionB, RegionA>>),
     Payload(Uhr(2), Uhr(3), LegendFull, <<RegionB, RegionA>>) >>

\* The Store of a process whose update() fetched RacePayloads[n] on day d.
WriterStore(n, d) ==
  Rebuild(ClientState(EmptyDict, None, None, None), RacePayloads[n], d).st

\* save_to_cache's cache_data in that process.
RaceDoc(n, d) == Snapshot(WriterStore(n, d))

\* The keys of the document's regions in the order json.dump writes them.
Layout(n) ==
  [i \in 1..Len(RacePayloads[n].content) |->
     RegionKey(RacePayloads[n].content[i].region_id,
               RacePayloads[n].content[i].partregion_id)]

\* The parts the text of document n is written in.
PieceCount(n) == Len(Layout(n)) + 1
Piece(n, i) == [doc |-> n, i |-> i]

\* The bytes of a file between its old end and an offset written beyond it.
Hole == [doc |-> 0, i |-> 0]

\* The text after `piece` is written at offset k of it.
WriteAt(text, k, piece) ==
  [i \in 1..(IF k > Len(text) THEN k ELSE Len(text)) |->
     IF i = k THEN piece ELSE IF i <= Len(text) THEN text[i] ELSE Hole]

\* json.load accepts the text: it is one whole document, each part where a
\* document of that shape has it. (Documents of the same regions have parts
\* of the same lengths: they differ in digits of their timestamps.)
Parses(text) ==
  /\ text # <<>>
  /\ \A i \in 1..Len(text) :
       /\ text[i].doc # 0 /\ text[i].i = i
       /\ Layout(text[i].doc) = Layout(text[1].doc)
  /\ Len(text) = PieceCount(text[1].doc)

\* The object json.load returns for a text it accepts: every region and the
\* rest as the document its part came from has them.
Parsed(text, d) ==
  LET n == Len(text)
      keys == Layout(text[1].doc)
      at(k) == CHOOSE i \in 1..Len(keys) : keys[i] = k
      tail == RaceDoc(text[n].doc, d)
  IN [data |-> [k \in { keys[i] : i \in 1..Len(keys) } |->
                  RaceDoc(text[at(k)].doc, d).data[k]],
      legend |-> tail.legend,
      last_update |-> tail.last_update,
      next_update |-> tail.next_update]

\* What a reader of the file finds, the text being as given.
FileOf(text, d) ==
  IF Parses(text) THEN JsonObject(Parsed(text, d)) ELSE InvalidJson

\* The process w enters save_to_cache with the Store of RacePayloads[n]:
\* open(cache_file, 'w') truncates the file.
WriterOpens(w, n) ==
  /\ pc = "idle"
  /\ writer.procs[w].pos = "idle"
  /\ writer' = [writer EXCEPT !.text = <<>>,
                               !.procs[w] = [pos |-> "open", doc |-> n, flushed |-> 0]]
  /\ file' = FileOf(<<>>, today)
  /\ age' = 0
  /\ UNCHANGED <<data, legend, last_update, next_update, cache_duration,
                 today, pc, attempt, retry_count, net, op, ret, tasks,
                 initialization_task, awaits>>

\* json.dump in process w: the next part of its document reaches the file.
WriterFlushes(w) ==
  /\ pc = "idle"
  /\ writer.procs[w].pos = "open"
  /\ writer.procs[w].flushed < PieceCount(writer.procs[w].doc)
  /\ LET k == writer.procs[w].flushed + 1
         text == WriteAt(writer.text, k, Piece(writer.procs[w].doc, k))
     IN /\ writer' = [writer EXCEPT !.text = text, !.procs[w].flushed = k]
        /\ file' = FileOf(text, today)
  /\ age' = 0
  /\ UNCHANGED <<data, legend, last_update, next_update, cache_duration,
                 today, pc, attempt, retry_count, net, op, ret, tasks,
                 initialization_task, awaits>>

\* The with block of process w ends, its document written: w leaves
\* save_to_cache, the last process to have done so.
WriterCloses(w) ==
  /\ pc = "idle"
  /\ writer.procs[w].pos = "open"
  /\ writer.procs[w].flushed = PieceCount(writer.procs[w].doc)
  /\ writer' = [writer EXCEPT !.procs[w] = NoProc, !.last = writer.procs[w].doc]
  /\ UNCHANGED <<data, legend, last_update, next_update, cache_duration, file, age,
                 today, pc, attempt, retry_count, net, op, ret, tasks,
                 initialization_task, awaits>>

\* The reading process holds no Store yet, or the Store of an update() of
\* its own; no snapshot has been written.
InitRace ==
  /\ tasks = NoTasks
  /\ initialization_task = None
  /\ awaits = 0
  /\ writer = NoWriter
  /\ today \in Days
  /\ \E st \in { ClientState(EmptyDict, None, None, None), WriterStore(2, today) } :
       /\ data = st.data
       /\ legend = st.legend
       /\ last_update = st.last_update
       /\ next_update = st.next_update
  /\ cache_duration \in 1..MaxCacheDuration
  /\ file = NoFile
  /\ age = 0
  /\ pc = "idle"
  /\ attempt = 0
  /\ retry_count = 0
  /\ net = NoNet
  /\ op = NoOp
  /\ ret = NoRet

\* One process loading the snapshot while two others save theirs.
NextRace ==
  \/ \E w \in Writers, n \in 1..Len(RacePayloads) : WriterOpens(w, n)
  \/ \E w \in Writers : WriterFlushes(w)
  \/ \E w \in Writers : WriterCloses(w)
  \/ CallLoadFromCache
  \/ Return
  \/ Tick

SpecRace == InitRace /\ [][NextRace]_vars

\* get_data called on its own, for every retry_count up to MaxRetry.
NextGetData ==
  \/ \E rc \in 0..MaxRetry : CallGetData(rc)
  \/ AttemptFails
  \/ \E p \in Payloads : AttemptSucceeds(p)
  \/ Exhausted
  \/ Return

SpecGetData == Init /\ [][NextGetData]_vars

\* ------------------------------------------------- the forecast builder
\* build_pollen and build_values applied to every bucket and raw code, on
\* every day, by a client whose legend has been built.

\* The legends the builder runs under: the one built from the publisher's
\* legend, and one with a description for every code, the sentinel included.
BuildLegends == { build_legend(LegendFull).val, [t \in CodeTexts |-> "Belastung"] }

\* The raw codes a bucket's slots carry.
BucketCodes == {"0", "1-2", "2-3", "3", "-1"}

Buckets == [today : BucketCodes, tomorrow : BucketCodes, dayafter_to : BucketCodes]

\* The raw codes "a" and "a-b" with the numbers they are written from.
RawCodes ==
  { [n |-> <<a>>, raw |-> Code1(a)] : a \in CodeNumbers }
  \cup { [n |-> m, raw |-> Code2(m[1], m[2])] : m \in CodeNumbers \X CodeNumbers }

\* The items flat legends are made of: codes with and without their '_desc'
\* sibling, two keys with the same code, and a key with '_desc' inside it.
LegendPool ==
  { << <<"id1">>, "0" >>, << <<"id1", "_desc">>, "none" >>,
    << <<"id2">>, "1" >>, << <<"id2", "_desc">>, "low" >>,
    << <<"id3">>, "0" >>, << <<"id3", "_desc">>, "kein" >>,
    << <<"id2", "_desc", "x">>, "1-2" >> }

\* The flat legends: dicts of up to MaxLegend items, in every order of insertion.
FlatLegends ==
  { lg \in UNION { [1..n -> LegendPool] : n \in 0..MaxLegend } :
      \A i, j \in DOMAIN lg : lg[i][1] = lg[j][1] => i = j }

InitBuild ==
  /\ Sequential
  /\ data = EmptyDict
  /\ legend \in BuildLegends
  /\ last_update = None
  /\ next_update = None
  /\ cache_duration = 1
  /\ file = NoFile
  /\ age = 0
  /\ today \in 0..MaxDay
  /\ pc = "idle"
  /\ attempt = 0
  /\ retry_count = 0
  /\ net = NoNet
  /\ op = NoOp
  /\ ret = NoRet

\* self.build_pollen(allergen) is called.
CallBuildPollen(allergen) ==
  /\ pc = "idle"
  /\ Finish([NewOp("build_pollen", FALSE) EXCEPT !.payload = allergen],
            build_pollen(legend, allergen, today))
  /\ UNCHANGED <<data, legend, last_update, next_update, cache_duration, file, age,
                 today, net>>
  /\ UNCHANGED concurrent

\* await self.build_pollen(allergen) of the asynchronous client is called.
CallAsyncBuildPollen(allergen) ==
  /\ pc = "idle"
  /\ Finish([NewOp("async_build_pollen", FALSE) EXCEPT !.payload = allergen],
            async_build_pollen(legend, allergen, today))
  /\ UNCHANGED <<data, legend, last_update, next_update, cache_duration, file, age,
                 today, net>>
  /\ UNCHANGED concurrent

\* build_values(value) is called with the raw code `code` writes.
CallBuildValues(code) ==
  /\ pc = "idle"
  /\ Finish([NewOp("build_values", FALSE) EXCEPT !.payload = code],
            build_values(legend, code.raw))
  /\ UNCHANGED <<data, legend, last_update, next_update, cache_duration, file, age,
                 today, net>>
  /\ UNCHANGED concurrent

\* build_legend(lg) is called.
CallBuildLegend(lg) ==
  /\ pc = "idle"
  /\ Finish([NewOp("build_legend", FALSE) EXCEPT !.payload = lg], build_legend(lg))
  /\ UNCHANGED <<data, legend, last_update, next_update, cache_duration, file, age,
                 today, net>>
  /\ UNCHANGED concurrent

NextBuild ==
  \/ \E allergen \in Buckets : CallBuildPollen(allergen)
  \/ \E allergen \in Buckets : CallAsyncBuildPollen(allergen)
  \/ \E lg \in FlatLegends : CallBuildLegend(lg)
  \/ \E code \in RawCodes : CallBuildValues(code)
  \/ Return

SpecBuild == InitBuild /\ [][NextBuild]_vars

\* ------------------------------------------------------------ the properties
\* Each property looks at a call in the state it returns in (pc = "returned"),
\* where op holds what the client, the file and its age were when the call was
\* made, and net what the call did on the transport.

UpdateReturned == pc = "returned" /\ op.name = "update"
LoadReturned == pc = "returned" /\ op.name = "load_from_cache"
GetDataReturned == pc = "returned" /\ op.name = "get_data"

\* The snapshot the call found holds a JSON object with a non-empty Store.
FoundStore == op.preFile.kind = "object" /\ NonEmpty(DictGet(op.preFile.doc, "data", EmptyDict))

\* The snapshot the call found exists and is older than cache_duration.
FoundStale == op.preFile.kind # "absent" /\ op.preAge > cache_duration

\* C1: if the rebuild pass of update() fails on a fetched payload, the Store,
\* the Legend and the global last_update / next_update are after the call
\* exactly what they were before it. (Stated of forced updates, where nothing
\* but the rebuild pass touches the client.) The code assigns the timestamps
\* and the legend and empties the Store in place before the regions are
\* built, so this does not hold.
C1_UpdateAllOrNothing ==
  (UpdateReturned /\ op.force /\ op.fetch = "ok" /\ ~op.saved) => client = op.pre

\* C2: when every transport attempt of an update fails, the update fails and
\* data, legend, last_update and next_update are what they were before the
\* call. A non-forced update has by then read the snapshot, and a snapshot
\* reported not usable can already have replaced them (C8).
C2_ExhaustionLeavesState ==
  (UpdateReturned /\ op.fetch = "exhausted")
    => /\ ~(ret.exc = "none" /\ ret.val = TRUE)
       /\ client = op.pre

\* C3: for every retry_count >= 1, a get_data whose transport calls all fail
\* makes exactly retry_count of them and then raises DwdPollenError; while it
\* runs it never has made more than retry_count calls.
C3_RetryExhaustion ==
  /\ (pc = "get_data" /\ op.name = "get_data")
       => net.calls = attempt /\ (retry_count >= 1 => attempt <= retry_count)
  /\ (GetDataReturned /\ op.retry_count >= 1 /\ net.fails = net.calls)
       => /\ net.calls = op.retry_count
          /\ ret.exc = "DwdPollenError"
          /\ op.payload = None

C3_Witness ==
  /\ GetDataReturned /\ op.fetch = "exhausted"
  /\ op.retry_count = DEFAULT_RETRY_COUNT /\ net.fails = DEFAULT_RETRY_COUNT

\* C4: a get_data whose transport fails k-1 times and then succeeds, with
\* k <= retry_count, returns the payload of that attempt after exactly k
\* transport calls and raises nothing.
C4_RetryUntilSuccess ==
  (GetDataReturned /\ op.fetch = "ok")
    => /\ ret.exc = "none" /\ ret.val = op.payload
       /\ net.calls = net.fails + 1
       /\ net.calls <= op.retry_count
       /\ net.delays = net.fails

C4_Witness ==
  /\ GetDataReturned /\ op.fetch = "ok" /\ ret.exc = "none"
  /\ ret.val \in GoodPayloads
  /\ net.fails = 2 /\ net.calls = 3 /\ op.retry_count = 3

\* C5: a non-forced update whose load_from_cache reports the snapshot usable
\* adopts the snapshot's data and legend, returns True, makes no transport
\* call and does not rewrite the snapshot.
C5_CacheHit ==
  (UpdateReturned /\ ~op.force /\ op.usable)
    => /\ ret.exc = "none" /\ ret.val = TRUE
       /\ net.calls = 0 /\ op.fetch = "none"
       /\ ~op.saved /\ file = op.preFile /\ age = op.preAge
       /\ data = op.preFile.doc.data
       /\ legend = op.preFile.doc.legend

C5_Witness ==
  /\ UpdateReturned /\ ~op.force /\ op.usable
  /\ op.pre.data = EmptyDict /\ NonEmpty(data) /\ net.calls = 0

\* C6: a forced update never reads the snapshot, whether it exists and
\* whatever its age, and always calls the transport.
C6_ForcedUpdate ==
  (op.name = "update" /\ op.force)
    => /\ op.loads = 0 /\ ~op.usable
       /\ op.fetch # "none"
       /\ pc = "get_data" => client = op.pre
       /\ pc = "returned" => net.calls >= 1

C6_Witness ==
  /\ UpdateReturned /\ op.force
  /\ FoundStore /\ op.preAge <= cache_duration
  /\ op.loads = 0 /\ net.calls >= 1

\* C7: a snapshot older than cache_duration is reported not usable and
\* leaves data, legend and the timestamps alone, and a non-forced update then
\* goes on to the transport; a snapshot whose age equals cache_duration is
\* still within the window.
C7_CacheStaleness ==
  /\ (op.loads = 1 /\ FoundStale)
       => /\ ~op.usable
          /\ LoadReturned => (client = op.pre /\ ret = Ok(FALSE))
          /\ op.name = "update"
               => /\ op.fetch # "none"
                  /\ pc = "get_data" => client = op.pre
                  /\ pc = "returned" => net.calls >= 1
  /\ (op.loads = 1 /\ FoundStore /\ op.preAge = cache_duration) => op.usable

C7_Witness ==
  /\ UpdateReturned /\ ~op.force /\ op.loads = 1
  /\ FoundStale /\ FoundStore
  /\ net.calls >= 1

\* C8: a load_from_cache that does not report the snapshot usable leaves
\* data, legend, last_update and next_update exactly as they were. The code
\* assigns them as it reads and decides afterwards, so a snapshot with an
\* empty Store or with a bad timestamp string has replaced them by then.
C8_LoadAtomic ==
  (LoadReturned /\ ~op.usable) => client = op.pre

\* C9: whatever a fresh snapshot file holds, load_from_cache returns without
\* raising and a non-forced update goes on to the refetch path. The code
\* catches IOError and JSONDecodeError only: a snapshot that is not an object
\* or carries a timestamp string fromisoformat rejects raises out of both.
C9_MalformedNotFatal ==
  /\ LoadReturned => ret.exc = "none"
  /\ (UpdateReturned /\ op.loads = 1 /\ ~op.usable) => op.fetch # "none"

\* C10: a load_from_cache of the snapshot this client has saved, within the
\* cache window, gives back a Store, a Legend and timestamps equal to the
\* saved ones, with no transport call. The code writes each region's
\* last_update / next_update as ISO strings and reads them back as strings.
C10_CacheRoundTrip ==
  (LoadReturned /\ op.usable /\ op.preFile = JsonObject(Snapshot(op.pre)))
    => client = op.pre /\ net.calls = 0

\* The composite keys of the regions a payload's content lists.
PayloadKeys(p) ==
  { RegionKey(p.content[i].region_id, p.content[i].partregion_id) :
      i \in 1..Len(p.content) }

\* C11: if writing the snapshot fails in an update whose fetch and rebuild
\* succeeded, the failure is swallowed: update returns True and the Store
\* holds the data built from the fetched payload (a write that failed before
\* the file was opened leaves the file as it was).
C11_BestEffortSave ==
  (UpdateReturned /\ op.saved /\ op.write # "ok")
    => /\ ret.exc = "none" /\ ret.val = TRUE
       /\ DOMAIN data = PayloadKeys(op.payload)
       /\ last_update = strptime(op.payload.last_update).val
       /\ next_update = strptime(op.payload.next_update).val
       /\ \A k \in DOMAIN data : data[k].last_update = last_update
       /\ op.write = "open" => file = op.preFile

C11_Witness ==
  /\ UpdateReturned /\ op.saved /\ op.write = "write"
  /\ file = InvalidJson /\ op.preFile.kind = "object"
  /\ NonEmpty(data) /\ ret.exc = "none" /\ ret.val = TRUE

GetPollenReturned == pc = "returned" /\ op.name \in {"get_pollen", "async_get_pollen"}

\* C12: get_pollen for a key the Store does not hold makes exactly one update
\* attempt, which does not read the cache, and looks the key up again; if the
\* key is still absent it raises KeyError, and it never returns anything but
\* the Store's entry for the key. The update attempt can raise instead of
\* returning (DwdPollenError when the transport fails), and get_pollen then
\* raises that error, not KeyError.
C12_FacadeNotFound ==
  GetPollenReturned
    => /\ op.key \notin DOMAIN op.pre.data => (op.updates = 1 /\ op.loads = 0)
       /\ op.key \notin DOMAIN data => ret.exc = "KeyError"
       /\ ret.exc = "none" => (op.key \in DOMAIN data /\ ret.val = data[op.key])

\* C13: after every successful update() that fetched a payload, the Store's
\* keys are exactly the composite keys of the payload's content, every region
\* in it is the one built from the payload in this pass, and so no region of
\* an earlier Store survives.
C13_FullReplacement ==
  (UpdateReturned /\ op.fetch = "ok" /\ ret.exc = "none" /\ ret.val = TRUE)
    => /\ DOMAIN data = PayloadKeys(op.payload)
       /\ \A i \in 1..Len(op.payload.content) :
            LET region == op.payload.content[i]
            IN data[RegionKey(region.region_id, region.partregion_id)]
                 = BuildRegion(client, region, today).val

C13_Witness ==
  /\ UpdateReturned /\ op.fetch = "ok" /\ ret.exc = "none" /\ ret.val = TRUE
  /\ NonEmpty(data)
  /\ \E k \in DOMAIN op.pre.data : k \notin DOMAIN data

\* C14: after every successful AsyncDwdPollenApi.update() the Store's keys
\* are exactly the composite keys of the fetched payload's content, as after
\* the blocking update(). The asynchronous update() never empties the Store,
\* so a region the new payload does not list stays in it.
C14_AsyncFullReplacement ==
  (pc = "returned" /\ op.name = "async_update" /\ op.fetch = "ok" /\ ret.exc = "none")
    => DOMAIN data = PayloadKeys(op.payload)

\* C15: in every reachable state every region in the Store carries the
\* client's global last_update / next_update pair. A failed update() has
\* assigned the global pair before it fails, and a cache load gives the
\* regions the ISO strings of the snapshot, so this does not hold.
C15_StoreTimestamps ==
  \A k \in DOMAIN data :
    data[k].last_update = last_update /\ data[k].next_update = next_update

\* C16: update() returns True if the update was successful and False
\* otherwise, whatever failed, and raises nothing. The DwdPollenError of an
\* exhausted fetch and what load_from_cache raises are not caught.
C16_UpdateReturnsBool ==
  UpdateReturned => (ret.exc = "none" /\ ret.val = (op.usable \/ op.saved))

\* build_pollen has returned or raised.
BuildPollenEnded == pc = "returned" /\ op.name = "build_pollen"

\* The weekday rule as the specification words it: the <<day, raw code>>
\* pairs a bucket b yields on day number today.
WeekdayRule(t, b) ==
  LET both == { <<t, b.today>>, <<t + 1, b.tomorrow>> }
      after == IF b.dayafter_to # "-1" THEN { <<t + 2, b.dayafter_to>> } ELSE {}
  IN IF t % 7 \in 0..3 THEN both
     ELSE IF t % 7 = 4 THEN both \cup after
     ELSE IF t % 7 = 5 THEN { <<t, b.tomorrow>> } \cup after
     ELSE after

\* C17: on every weekday and for every bucket, the forecast build_pollen
\* returns has exactly the entries of the weekday rule, each built from the
\* slot the rule names, and no others; it returns one whenever every code the
\* rule uses can be decoded and has a legend text.
C17_WeekdayRule ==
  BuildPollenEnded =>
    /\ ret.exc = "none" =>
         { <<k, ret.val[k].raw>> : k \in DOMAIN ret.val }
           = { <<TimeStr("date", p[1]), p[2]>> : p \in WeekdayRule(today, op.payload) }
    /\ ret.exc = "none" <=>
         \A p \in WeekdayRule(today, op.payload) : p[2] # "-1" /\ p[2] \in DOMAIN legend

\* A Saturday forecast: today from the bucket's tomorrow, and the day after.
C17_Witness ==
  /\ BuildPollenEnded /\ ret.exc = "none"
  /\ today % 7 = 5
  /\ op.payload.today # op.payload.tomorrow
  /\ DOMAIN ret.val = { TimeStr("date", today), TimeStr("date", today + 2) }
  /\ ret.val[TimeStr("date", today)].raw = op.payload.tomorrow

\* C18: a forecast build_pollen returns, which is what an update stores for
\* the allergen, has at most three entries, all dated today, today + 1 or
\* today + 2, and none of them built from the raw code "-1", whichever slot
\* of the bucket carries it.
C18_OnlyCommittedDates ==
  (BuildPollenEnded /\ ret.exc = "none") =>
    /\ Cardinality(DOMAIN ret.val) \in 0..3
    /\ DOMAIN ret.val \subseteq { TimeStr("date", today + i) : i \in 0..2 }
    /\ \A k \in DOMAIN ret.val : ret.val[k].raw # "-1"

\* A Sunday forecast from a bucket without a day-after code, under a legend
\* that has a text for "-1": it is empty.
C18_Witness ==
  /\ BuildPollenEnded /\ ret.exc = "none"
  /\ today % 7 = 6
  /\ op.payload.dayafter_to = "-1"
  /\ "-1" \in DOMAIN legend
  /\ ret.val = EmptyDict

\* build_values has returned or raised.
BuildValuesEnded == pc = "returned" /\ op.name = "build_values"

\* C19: for the raw code "a" the entry's value is a, for "a-b" it is
\* (a + b) / 2, and the entry's raw field is the raw code as it was given;
\* decoding such a code raises nothing.
C19_ValueDecoding ==
  (BuildValuesEnded /\ op.payload.raw \in DOMAIN legend) =>
    /\ ret.exc = "none"
    /\ ret.val.raw = op.payload.raw
    /\ Len(op.payload.n) = 1 => ret.val.value.num = op.payload.n[1] * ret.val.value.den
    /\ Len(op.payload.n) = 2 =>
         2 * ret.val.value.num = (op.payload.n[1] + op.payload.n[2]) * ret.val.value.den

\* The range "3-12" decoded: two-digit numbers and a mean that is not whole.
C19_Witness ==
  /\ BuildValuesEnded /\ ret.exc = "none"
  /\ op.payload.n = <<3, 12>>
  /\ ret.val.raw = "3-12"
  /\ ret.val.value = [num |-> 15, den |-> 2]

\* The colour of the specification's band table for the value num / den.
BandColor(v) ==
  IF v.num <= 0 THEN "#00FF00"
  ELSE IF v.num <= v.den THEN "#ADFF2F"
  ELSE IF v.num <= 2 * v.den THEN "#FFFF00"
  ELSE IF 2 * v.num <= 5 * v.den THEN "#FFA500"
  ELSE "#FF0000"

\* C20: every entry's colour is the band of its own value, the upper edge of
\* each band included: value <= 0 green, <= 1 green-yellow, <= 2 yellow,
\* <= 2.5 orange, above that red; every value an entry can have is in a band.
C20_ColorBands ==
  (BuildValuesEnded /\ ret.exc = "none") =>
    /\ ret.val.color = BandColor(ret.val.value)
    /\ ret.val.value.den > 0

\* The value 2.5, decoded from "2-3", is still orange.
C20_Witness ==
  /\ BuildValuesEnded /\ ret.exc = "none"
  /\ ret.val.value = [num |-> 5, den |-> 2]
  /\ ret.val.color = "#FFA500"

\* build_legend has returned or raised.
BuildLegendEnded == pc = "returned" /\ op.name = "build_legend"

\* The code keys of a flat legend: the positions whose key has no '_desc' in it.
CodeKeys(lg) == { i \in DOMAIN lg : \A j \in DOMAIN lg[i][1] : lg[i][1][j] # "_desc" }

\* The positions of the '_desc' siblings of the code key at position i.
Siblings(lg, i) == { j \in DOMAIN lg : lg[j][1] = lg[i][1] \o <<"_desc">> }

\* C21: build_legend returns the mapping from the value of every code key (a
\* key without '_desc' in it) to the value of its '_desc' sibling and nothing
\* else, the later of two keys with one code winning; when a code key has no
\* sibling it raises KeyError and returns no legend.
C21_LegendDecoding ==
  BuildLegendEnded =>
    LET lg == op.payload
    IN /\ ret.exc = "KeyError" <=> \E i \in CodeKeys(lg) : Siblings(lg, i) = {}
       /\ ret.exc \in {"none", "KeyError"}
       /\ ret.exc = "none" =>
            /\ DOMAIN ret.val = { lg[i][2] : i \in CodeKeys(lg) }
            /\ \A i \in CodeKeys(lg) :
                 (\A j \in CodeKeys(lg) : lg[j][2] = lg[i][2] => j <= i)
                   => \A d \in Siblings(lg, i) : ret.val[lg[i][2]] = lg[d][2]

\* The legend {"id1": "0", "id1_desc": "none", "id2": "1", "id2_desc": "low"}
\* gives {"0": "none", "1": "low"}.
C21_Witness ==
  /\ BuildLegendEnded /\ ret.exc = "none"
  /\ op.payload = << << <<"id1">>, "0" >>, << <<"id1", "_desc">>, "none" >>,
                      << <<"id2">>, "1" >>, << <<"id2", "_desc">>, "low" >> >>
  /\ DOMAIN ret.val = {"0", "1"}
  /\ ret.val["0"] = "none" /\ ret.val["1"] = "low"

\* get_allergen_for_region has returned or raised.
GetAllergenReturned == pc = "returned" /\ op.name = "get_allergen_for_region"

\* C30: get_allergen_for_region returns Store[key].pollen[allergen] when the
\* Store holds both; for a region the Store holds without that allergen it
\* raises KeyError with no update, transport call or cache read and the
\* client as it was; for a region the Store does not hold it makes the one
\* forced update get_pollen makes, and what it returns after it is the
\* allergen of the region in the Store.
C30_AllergenLookup ==
  GetAllergenReturned =>
    /\ op.key \in DOMAIN op.pre.data =>
         /\ op.updates = 0 /\ op.loads = 0 /\ net = NoNet
         /\ client = op.pre /\ file = op.preFile
         /\ IF op.allergen \in DOMAIN op.pre.data[op.key].pollen
            THEN ret = Ok(op.pre.data[op.key].pollen[op.allergen])
            ELSE ret.exc = "KeyError"
    /\ op.key \notin DOMAIN op.pre.data =>
         (op.updates = 1 /\ op.force /\ op.loads = 0 /\ op.fetch # "none")
    /\ ret.exc = "none" =>
         /\ op.key \in DOMAIN data
         /\ op.allergen \in DOMAIN data[op.key].pollen
         /\ ret.val = data[op.key].pollen[op.allergen]

\* Region 10-11 is in the Store without "Hasel": not found, with no update.
C30_Witness ==
  /\ GetAllergenReturned
  /\ op.key \in DOMAIN op.pre.data
  /\ op.allergen \notin DOMAIN op.pre.data[op.key].pollen
  /\ ret.exc = "KeyError"
  /\ op.updates = 0

\* A call of the asynchronous client that awaited get_data_async has ended.
AsyncFetchEnded ==
  /\ pc = "returned"
  /\ op.name \in {"async_update", "async_get_pollen", "async_get_allergen_for_region"}
  /\ op.fetch # "none"

\* C26: a call's get_data_async makes exactly one transport call and sleeps
\* no delay; when that call fails, whatever it raised, DwdPollenError leaves
\* the update and the Store, the legend and the timestamps are as before.
C26_AsyncFetch ==
  AsyncFetchEnded =>
    /\ net.calls = 1 /\ net.delays = 0
    /\ op.fetch = "exhausted" =>
         /\ net.fails = 1
         /\ ret.exc = "DwdPollenError"
         /\ client = op.pre

\* An update over a Store with regions whose fetch failed.
C26_Witness ==
  /\ AsyncFetchEnded
  /\ op.name = "async_update"
  /\ op.fetch = "exhausted"
  /\ ret.exc = "DwdPollenError"
  /\ data # EmptyDict /\ data = op.pre.data

\* The Store d is the complete result of a rebuild pass over payload p: it
\* holds every region of p, built whole, and no other.
CompleteRebuild(d, p) ==
  /\ p # None /\ "content" \in DOMAIN p
  /\ DOMAIN d = PayloadKeys(p)
  /\ \A i \in DOMAIN p.content :
       LET b == BuildRegion(client, p.content[i], today)
       IN b.exc = "none" /\ \E k \in DOMAIN d : d[k] = b.val

\* C25: the Store a read accessor finds after any call is whole: the empty
\* Store, the Store as it was before the call, the Store of the snapshot the
\* call read, or the complete result of the rebuild pass over the payload the
\* call fetched; never some of a payload's regions only.
C25_NoPartialStore ==
  pc = "returned" =>
    \/ data = EmptyDict
    \/ data = op.pre.data
    \/ /\ op.loads = 1 /\ op.preFile.kind = "object"
       /\ data = DictGet(op.preFile.doc, "data", EmptyDict)
    \/ op.fetch = "ok" /\ CompleteRebuild(data, op.payload)

\* A run of the command line has ended.
MainEnded == pc = "returned" /\ op.name = "main"

\* What a run prints for a failure: one of the JSON error objects.
ErrorObjects == {"help_error", "error_404", "error_500"}

\* C28: a run without --list that has no region ID, and one whose region is
\* not in the Store when it ends, prints a JSON error object and ends with a
\* non-zero exit status.
C28_CliFailureSignalling ==
  (MainEnded /\ ~op.args.list) =>
    /\ op.args.region = <<>> => (op.out \in ErrorObjects /\ op.exit # 0)
    /\ (op.args.region # <<>>
          /\ RegionKey(op.args.region[1], op.args.partregion) \notin DOMAIN data)
         => (op.out \in ErrorObjects /\ op.exit # 0)

\* C29: a run with --list prints the region list and ends with exit status
\* 0, whatever the transport and the cache file do.
C29_CliListIndependent ==
  (MainEnded /\ op.args.list) => (op.out = "regions" /\ op.exit = 0)

\* The initialization task was created and has not run to its end.
InitPending == tasks["init"].name = "update" /\ tasks["init"].pos # "done"

\* The coroutine t is inside one of the four reads.
InRead(t) ==
  tasks[t].name \in {"get_pollen", "get_region_names", "get_allergen_names",
                     "get_allergen_for_region"}

\* C22: while the initialization update of AsyncDwdPollenApi(auto_update=True)
\* has not run to completion, every coroutine inside a read is suspended in
\* its await of the initialization task: none has returned or raised, and
\* none has gone on to look at the Store.
C22_InitializationJoin ==
  \A t \in Readers : (InRead(t) /\ InitPending) => tasks[t].pos = "await_init"

\* A get_region_names that awaited the initialization task and then returned
\* the regions its update stored.
C22_Witness ==
  \E t \in Readers :
    /\ tasks[t].name = "get_region_names"
    /\ tasks[t].pos = "done" /\ tasks[t].waited
    /\ tasks[t].result.exc = "none" /\ Len(tasks[t].result.val) = 2
    /\ tasks["init"].pos = "done"

\* C23: the initialization task is awaited once on a client, and once a read
\* has come out of that await, the task having succeeded or failed, the
\* handle is cleared.
C23_OneShotHandle ==
  /\ awaits <= 1
  /\ \A t \in Readers :
       (InRead(t) /\ tasks[t].waited /\ tasks[t].pos # "await_init")
         => initialization_task = None

\* The coroutines inside the region loop of an update().
InPass == { t \in TaskIds : tasks[t].pos = "pass" }

\* C24: whatever the interleaving of update() calls, the initialization task
\* and reads refreshing on a missing key, at most one coroutine is inside the
\* rebuild pass of update(), between the assignment of the timestamps and the
\* end of the region loop.
C24_UpdateMutualExclusion == Cardinality(InPass) <= 1

\* One update() has stored the first of two regions while another update()
\* is awaiting its fetch.
C24_Witness ==
  \E t, u \in TaskIds :
    /\ t # u
    /\ tasks[t].pos = "pass" /\ tasks[t].i = 1 /\ Len(tasks[t].payload.content) = 2
    /\ tasks[u].pos = "await_fetch"

\* The documents the writing processes save.
RaceDocs == { RaceDoc(n, today) : n \in 1..Len(RacePayloads) }

\* No process is inside save_to_cache and one has been.
WritersDone ==
  /\ writer.last # 0
  /\ \A w \in Writers : writer.procs[w].pos = "idle"

\* C27: a load_from_cache run while other processes save to the file either
\* returns True with the Store, legend and timestamps of one whole document
\* some process saved, or returns False, raising nothing, with data, legend
\* and both timestamps as they were; and once every process has left
\* save_to_cache the file holds the document of the one that left last.
C27_CacheFileRace ==
  /\ LoadReturned =>
       \/ /\ ret = Ok(TRUE)
          /\ \E doc \in RaceDocs :
               client = load_from_cache(op.pre, JsonObject(doc), 0, cache_duration).st
       \/ /\ ret = Ok(FALSE)
          /\ client = op.pre
  /\ WritersDone => file = JsonObject(RaceDoc(writer.last, today))

GetForecastSummaryReturned == pc = "returned" /\ op.name = "get_forecast_summary"
GetRegionNamesReturned == pc = "returned" /\ op.name = "get_region_names"
GetAllergenNamesReturned == pc = "returned" /\ op.name = "get_allergen_names"

\* The dates some allergen of the region has an entry on.
RegionDates(region) == UNION { DOMAIN region.pollen[a] : a \in DOMAIN region.pollen }

\* C31: for a region in the Store get_forecast_summary returns a mapping
\* whose keys are exactly the dates some allergen of the region has an entry
\* on, in ascending order, the value for a date mapping exactly the allergens
\* with an entry on it to that entry's human text.
C31_ForecastSummary ==
  (GetForecastSummaryReturned /\ ret.exc = "none" /\ op.key \in DOMAIN data) =>
    LET result == ret.val
        region == data[op.key]
    IN /\ { result[i][1] : i \in 1..Len(result) } = RegionDates(region)
       /\ \A i, j \in 1..Len(result) : i < j => result[i][1].t < result[j][1].t
       /\ \A i \in 1..Len(result) :
            /\ DOMAIN result[i][2] =
                 { a \in DOMAIN region.pollen : result[i][1] \in DOMAIN region.pollen[a] }
            /\ \A a \in DOMAIN result[i][2] :
                 result[i][2][a] = region.pollen[a][result[i][1]].human

\* A summary of three dates, the last of which only one of the region's two
\* allergens has an entry on.
C31_Witness ==
  /\ GetForecastSummaryReturned /\ ret.exc = "none" /\ op.key \in DOMAIN data
  /\ Len(ret.val) = 3
  /\ DOMAIN ret.val[1][2] = {"Birke", "Hasel"}
  /\ DOMAIN ret.val[3][2] = {"Birke"}

\* C32: get_region_names returns one (region_id, partregion_id, region_name,
\* partregion_name) tuple for each entry of the Store and no other, in
\* ascending order of the tuples, whatever the Store holds.
C32_RegionNames ==
  GetRegionNamesReturned =>
    LET result == ret.val
    IN /\ ret.exc = "none"
       /\ Len(result) = Cardinality(DOMAIN data)
       /\ { result[i] : i \in 1..Len(result) } =
            { <<data[k].region_id, data[k].partregion_id, data[k].region_name,
                data[k].partregion_name>> : k \in DOMAIN data }
       /\ \A i, j \in 1..Len(result) :
            i < j => \/ result[i][1] < result[j][1]
                     \/ result[i][1] = result[j][1] /\ result[i][2] < result[j][2]

\* The tuples of a Store of two regions, returned.
C32_Witness ==
  /\ GetRegionNamesReturned
  /\ Len(ret.val) = 2 /\ ret.val[1][1] = 10 /\ ret.val[2][1] = 50

\* C33: get_allergen_names returns the allergen names of all regions of the
\* Store, each once, in ascending order; the empty list for an empty Store.
C33_AllergenNames ==
  GetAllergenNamesReturned =>
    LET result == ret.val
    IN /\ ret.exc = "none"
       /\ { result[i] : i \in 1..Len(result) } =
            { a \in Allergens : \E k \in DOMAIN data : a \in DOMAIN data[k].pollen }
       /\ \A i, j \in 1..Len(result) :
            i < j => result[i] = "Birke" /\ result[j] = "Hasel"
       /\ data = EmptyDict => result = <<>>

\* The names of a Store of two regions, one with one allergen and one with
\* two, returned.
C33_Witness ==
  /\ GetAllergenNamesReturned
  /\ Cardinality(DOMAIN data) = 2
  /\ ret.val = <<"Birke", "Hasel">>

\* The call changed nothing and reached for nothing: the client's fields and
\* the cache file are as the call found them, no update was entered, no
\* request made, no snapshot read or written.
ReadOnly ==
  /\ client = op.pre
  /\ file = op.preFile /\ age = op.preAge
  /\ op.updates = 0 /\ op.loads = 0 /\ ~op.saved
  /\ op.fetch = "none" /\ net.calls = 0

\* C34: get_region_names and get_allergen_names are read-only, and so are
\* get_pollen, get_allergen_for_region and get_forecast_summary for a key
\* the Store holds: an update is entered only for a key it does not hold.
C34_ReadOnlyAccessors ==
  /\ (GetRegionNamesReturned \/ GetAllergenNamesReturned) => ReadOnly
  /\ ( /\ pc = "returned"
       /\ op.name \in {"get_pollen", "get_allergen_for_region", "get_forecast_summary"}
       /\ op.key \in DOMAIN op.pre.data ) => ReadOnly

\* A get_forecast_summary for a key of a Store loaded or built before, with
\* a snapshot file in place.
C34_Witness ==
  /\ GetForecastSummaryReturned
  /\ op.key \in DOMAIN op.pre.data
  /\ file.kind = "object"
  /\ ReadOnly

\* min(a, b)
Min(a, b) == IF a < b THEN a ELSE b

\* The statement of C35 as it is worded: a get_data that ends after f failed
\* attempts has slept min(f, retry_count - 1) times. For retry_count = 0 no
\* attempt is made and nothing is slept, where the formula gives -1.
C35_DelaysAsWorded ==
  GetDataReturned => net.delays = Min(net.fails, op.retry_count - 1)

\* C35: get_data sleeps only after a failed attempt that is not the last one
\* allowed: while it runs every failed attempt so far has been followed by
\* one delay and nothing was slept before the first attempt; when it ends
\* after f failed attempts it has slept min(f, retry_count - 1) times for
\* retry_count >= 1 (f after a success, retry_count - 1 after the final
\* failure) and not at all for retry_count = 0.
C35_RetryDelayPlacement ==
  /\ (pc = "get_data" /\ op.name = "get_data")
       => /\ net.delays <= net.fails
          /\ net.calls = 0 => net.delays = 0
          /\ attempt < retry_count => net.delays = net.fails
  /\ GetDataReturned
       => /\ op.retry_count >= 1 => net.delays = Min(net.fails, op.retry_count - 1)
          /\ op.retry_count = 0 => net.delays = 0
          /\ op.fetch = "ok" => net.delays = net.fails
          /\ (op.fetch = "exhausted" /\ op.retry_count >= 1)
               => net.delays = op.retry_count - 1

\* Three attempts allowed, all failed: two delays.
C35_Witness ==
  /\ GetDataReturned /\ op.fetch = "exhausted"
  /\ op.retry_count = 3 /\ net.fails = 3 /\ net.delays = 2

\* The asynchronous client's build_pollen has returned or raised.
AsyncBuildPollenEnded == pc = "returned" /\ op.name = "async_build_pollen"

\* C38: on every weekday, for every bucket and every legend, the build_pollen
\* of AsyncDwdPollenApi and that of DwdPollenApi end alike: in the same
\* mapping of dates to {value, raw, human, color}, or in the same exception.
C38_BuilderEquivalence ==
  /\ AsyncBuildPollenEnded => ret = build_pollen(legend, op.payload, today)
  /\ BuildPollenEnded => ret = async_build_pollen(legend, op.payload, today)

\* A Friday forecast of three dates out of the asynchronous builder.
C38_Witness ==
  /\ AsyncBuildPollenEnded /\ ret.exc = "none"
  /\ today % 7 = 4
  /\ Cardinality(DOMAIN ret.val) = 3
  /\ ret = build_pollen(legend, op.payload, today)

\* The ForecastEntry values of the Store d.
StoreEntries(d) ==
  UNION { UNION { { d[k].pollen[a][date] : date \in DOMAIN d[k].pollen[a] } :
                  a \in DOMAIN d[k].pollen } : k \in DOMAIN d }

\* C36: in every state in which the Store is not empty the Legend is loaded
\* and every entry of the Store carries as its human text what the Legend
\* loaded now gives for its raw code.
C36_LegendConsistency ==
  NonEmpty(data) =>
    /\ legend # None
    /\ \A e \in StoreEntries(data) : e.raw \in DOMAIN legend /\ legend[e.raw] = e.human

\* The snapshot the call found is fresh and holds a JSON object whose Store
\* is empty or missing.
FoundFreshEmpty ==
  /\ op.preFile.kind = "object"
  /\ op.preAge <= cache_duration
  /\ ~NonEmpty(DictGet(op.preFile.doc, "data", EmptyDict))

\* C37: load_from_cache reports the snapshot usable only with a non-empty
\* Store; a non-forced update that returns True without a transport call
\* leaves a Store of at least one region; and a non-forced update that finds
\* a fresh snapshot with an empty Store goes on to the transport.
C37_EmptySnapshotNotServed ==
  /\ (LoadReturned /\ ret.exc = "none" /\ ret.val = TRUE) => NonEmpty(data)
  /\ (UpdateReturned /\ ~op.force /\ ret.exc = "none" /\ ret.val = TRUE
         /\ net.calls = 0) => NonEmpty(data)
  /\ (UpdateReturned /\ ~op.force /\ FoundFreshEmpty)
       => op.fetch # "none" /\ net.calls >= 1

\* What a call has used so far: no more transport attempts than retry_count
\* allows, at most one of them answered (so at most one rebuild pass), at
\* most one read of the snapshot and one update.
WithinBudget ==
  /\ net.calls <= DEFAULT_RETRY_COUNT
  /\ attempt <= DEFAULT_RETRY_COUNT
  /\ net.calls - net.fails <= 1
  /\ op.loads <= 1
  /\ op.updates <= 1
  /\ (pc = "returned" /\ op.fetch = "ok") => net.calls = net.fails + 1
  /\ (pc = "returned" /\ op.fetch = "exhausted") => net.calls = DEFAULT_RETRY_COUNT

\* C39: every update() returns or raises in the end, each pass of get_data's
\* loop completing, having made at most retry_count transport attempts, at
\* most one rebuild pass, at most one read of the snapshot and no further
\* update. (get_pollen on a key the Store lacks enters the same update():
\* WithinBudget is an invariant of SpecRead as well.)
C39_UpdateTerminates ==
  /\ []WithinBudget
  /\ (pc = "get_data") ~> (pc = "returned")

\* A non-forced update that read the snapshot, found it not usable, made
\* every attempt allowed and ended.
C39_Witness ==
  /\ UpdateReturned /\ ~op.force /\ op.loads = 1
  /\ op.fetch = "exhausted" /\ net.calls = DEFAULT_RETRY_COUNT

====
